---- MODULE Spec2Model ----
(***************************************************************************)
(* Connection classification and verification gateway of PeteZahGames      *)
(* (src/server.js) and the single-use bot-token registry of the signup     *)
(* handler (src/server/api/signup.js).                                     *)
(*                                                                         *)
(* Strings are TLA+ strings; an optional JavaScript value (a header that   *)
(* may be absent, an environment variable that may be unset, a property    *)
(* that may be undefined) is a set with no element or one element, so that *)
(* JavaScript's === on two optional values is equality of the two sets.    *)
(***************************************************************************)
EXTENDS Integers, Sequences, FiniteSets, TLC

VARIABLES
    env,        \* process.env: a function from the names that are set
    conn,       \* the connection the dispatcher is handling, or Idle
    prev,       \* path, kind, namespace and outcome of the connection before
    satisfied,  \* bot-token header values that satisfied prior verification
    clock,              \* Date.now()
    usedTokens,         \* signup.js usedTokens: token hash -> time of acceptance
    requestTimestamps,  \* signup.js requestTimestamps: ip key -> time
    suspiciousIPs,      \* signup.js suspiciousIPs: ip -> count
    timers,             \* pending setTimeout callbacks: map, key, due time
    users,              \* the users table: email -> is_admin
    pending,            \* signup requests waiting on argon2.hash: id -> request
    started,            \* number of signup requests received so far
    accepted,           \* token -> number of times validateBotToken returned true
    lastCall,           \* the latest call of validateBotToken, or NoCall
    lastStatus,         \* status of the latest signup response, 0 before any
    alloc,              \* the latest address an allocator returned, or NoAddress
    sitemap,            \* the latest calls of the sitemap helpers
    report,             \* the computeReport call in progress, or its result
    pool,               \* the withConcurrencyLimit call in progress, or its result
    proc,               \* the process's servers and its shutdown callbacks
    db                  \* the users table the admin handler works on, and its latest call

gatewayVars == <<conn, prev, satisfied>>

signupVars ==
    <<clock, usedTokens, requestTimestamps, suspiciousIPs, timers, users,
      pending, started, accepted, lastCall, lastStatus>>

toolVars == <<sitemap, report, pool, proc, db>>

vars == <<env, gatewayVars, signupVars, alloc, toolVars>>

(***************************************************************************)
(* String helpers: what the JavaScript String methods used by the gateway  *)
(* compute.                                                                *)
(***************************************************************************)

\* String.prototype.startsWith
StartsWith(s, p) == Len(s) >= Len(p) /\ SubSeq(s, 1, Len(p)) = p

\* String.prototype.includes
Includes(s, sub) ==
    \E i \in 1..(Len(s) - Len(sub) + 1) : SubSeq(s, i, i + Len(sub) - 1) = sub

\* one character folded to lower case (the /i flag of the browser pattern)
LowerChar(c) ==
    CASE c = "A" -> "a" [] c = "B" -> "b" [] c = "C" -> "c" [] c = "D" -> "d"
      [] c = "E" -> "e" [] c = "F" -> "f" [] c = "G" -> "g" [] c = "H" -> "h"
      [] c = "I" -> "i" [] c = "J" -> "j" [] c = "K" -> "k" [] c = "L" -> "l"
      [] c = "M" -> "m" [] c = "N" -> "n" [] c = "O" -> "o" [] c = "P" -> "p"
      [] c = "Q" -> "q" [] c = "R" -> "r" [] c = "S" -> "s" [] c = "T" -> "t"
      [] c = "U" -> "u" [] c = "V" -> "v" [] c = "W" -> "w" [] c = "X" -> "x"
      [] c = "Y" -> "y" [] c = "Z" -> "z" [] OTHER -> c

RECURSIVE ToLower(_)
ToLower(s) ==
    IF Len(s) = 0 THEN ""
    ELSE LowerChar(SubSeq(s, 1, 1)) \o ToLower(SubSeq(s, 2, Len(s)))

\* String.prototype.split with a one-character separator
RECURSIVE Split(_, _)
Split(s, sep) ==
    IF \E i \in 1..Len(s) : SubSeq(s, i, i) = sep
    THEN LET i == CHOOSE k \in 1..Len(s) :
                      /\ SubSeq(s, k, k) = sep
                      /\ \A j \in 1..(k - 1) : SubSeq(s, j, j) # sep
         IN  <<SubSeq(s, 1, i - 1)>> \o Split(SubSeq(s, i + 1, Len(s)), sep)
    ELSE <<s>>

\* String.prototype.trim (the white space of the inputs is the blank)
RECURSIVE Trim(_)
Trim(s) ==
    IF Len(s) > 0 /\ SubSeq(s, 1, 1) = " " THEN Trim(SubSeq(s, 2, Len(s)))
    ELSE IF Len(s) > 0 /\ SubSeq(s, Len(s), Len(s)) = " "
         THEN Trim(SubSeq(s, 1, Len(s) - 1))
         ELSE s

\* the value of an optional that is present
The(opt) == CHOOSE v \in opt : TRUE

\* req.headers[name]: absent headers read as undefined
Hdr(req, name) ==
    IF name \in DOMAIN req.headers THEN {req.headers[name]} ELSE {}

\* process.env[name]
EnvGet(name) == IF name \in DOMAIN env THEN {env[name]} ELSE {}

\* an object without properties
EmptyObject == [k \in {} |-> {}]

(***************************************************************************)
(* The inputs: request paths, header values and environment values the     *)
(* dispatcher is driven with.                                              *)
(***************************************************************************)

Urls == {"/bare/", "/bare/v3/", "/bare", "/wisp/", "/index.html"}

UserAgents == {{}, {"curl/8.0"}, {"Mozilla/5.0 Chrome/120"}, {"firefox"}}

Accepts == {{}, {"*/*"}, {"text/html,application/xml"}}

CookieHeaders ==
    {{}, {"verified=ok"}, {"theme=dark; verified=ok"}, {"verified=no"}, {"verified"}}

BotTokenHeaders == {{}, {"s3cret"}, {"guess"}}

\* process.env as the deployment may set it: BOT_TOKEN unset or the secret
Environments == {EmptyObject, "BOT_TOKEN" :> "s3cret"}

\* the values Math.floor(Math.random() * 5000) + 1 is sampled at
RandomDraws == {1, 196, 197, 5000}

OptField(name, opt) == IF opt = {} THEN EmptyObject ELSE name :> The(opt)

Requests ==
    {[url |-> u,
      headers |-> OptField("user-agent", ua) @@ OptField("accept", ac)
                  @@ OptField("cookie", ck) @@ OptField("x-bot-token", bt)] :
        u \in Urls, ua \in UserAgents, ac \in Accepts,
        ck \in CookieHeaders, bt \in BotTokenHeaders}

(***************************************************************************)
(* Random Address Allocator (server.js)                                    *)
(***************************************************************************)

HexDigit(d) == SubSeq("0123456789abcdef", d + 1, d + 1)

\* Number.prototype.toString(16)
RECURSIVE ToHex(_)
ToHex(n) == IF n < 16 THEN HexDigit(n) ELSE ToHex(n \div 16) \o HexDigit(n % 16)

\* String.prototype.padStart(4, '0')
RECURSIVE PadStart4(_)
PadStart4(s) == IF Len(s) >= 4 THEN s ELSE PadStart4("0" \o s)

\* getRandomIPv6 with i the value drawn from Math.random
getRandomIPv6(i) == "2607:5300:205:200:" \o PadStart4(ToHex(i)) \o "::1"

\* no address allocated yet
NoAddress == [by |-> "none", address |-> ""]

(***************************************************************************)
(* Verification helpers of the dispatcher (server.js)                      *)
(***************************************************************************)

\* the reduce of parseCookies: a later cookie of the same name overwrites
RECURSIVE CookieReduce(_, _)
CookieReduce(acc, segs) ==
    IF segs = <<>> THEN acc
    ELSE LET parts == Split(Trim(Head(segs)), "=")
             name  == parts[1]
             value == IF Len(parts) >= 2 THEN {parts[2]} ELSE {}
         IN  CookieReduce((name :> value) @@ acc, Tail(segs))

\* a bug parseCookies could have: the segment is not trimmed before the split
RECURSIVE CookieReduceNoTrim(_, _)
CookieReduceNoTrim(acc, segs) ==
    IF segs = <<>> THEN acc
    ELSE LET parts == Split(Head(segs), "=")
             name  == parts[1]
             value == IF Len(parts) >= 2 THEN {parts[2]} ELSE {}
         IN  CookieReduceNoTrim((name :> value) @@ acc, Tail(segs))

parseCookiesNoTrim(header) ==
    IF header = {} \/ header = {""} THEN EmptyObject
    ELSE CookieReduceNoTrim(EmptyObject, Split(The(header), ";"))

\* a bug parseCookies could have: the first cookie of a name is kept
RECURSIVE CookieReduceFirstWins(_, _)
CookieReduceFirstWins(acc, segs) ==
    IF segs = <<>> THEN acc
    ELSE LET parts == Split(Trim(Head(segs)), "=")
             name  == parts[1]
             value == IF Len(parts) >= 2 THEN {parts[2]} ELSE {}
         IN  CookieReduceFirstWins(acc @@ (name :> value), Tail(segs))

parseCookiesFirstWins(header) ==
    IF header = {} \/ header = {""} THEN EmptyObject
    ELSE CookieReduceFirstWins(EmptyObject, Split(The(header), ";"))

parseCookies(header) ==
    IF header = {} \/ header = {""} THEN EmptyObject
    ELSE CookieReduce(EmptyObject, Split(The(header), ";"))

\* parseCookies, tabulated once over the Cookie headers of the inputs
ParsedCookies == [h \in CookieHeaders |-> parseCookies(h)]

\* parseCookies(req.headers.cookie)
CookiesOf(req) ==
    IF Hdr(req, "cookie") \in CookieHeaders THEN ParsedCookies[Hdr(req, "cookie")]
    ELSE parseCookies(Hdr(req, "cookie"))

\* obj[name] of a parsed cookie object
Prop(obj, name) == IF name \in DOMAIN obj THEN obj[name] ELSE {}

\* a bug isVerified could have: a token value is honoured once only
isVerifiedSingleUse(req) ==
    \/ Prop(CookiesOf(req), "verified") = {"ok"}
    \/ /\ Hdr(req, "x-bot-token") = EnvGet("BOT_TOKEN")
       /\ Hdr(req, "x-bot-token") \notin satisfied

isVerified(req) ==
    \/ Prop(CookiesOf(req), "verified") = {"ok"}
    \/ Hdr(req, "x-bot-token") = EnvGet("BOT_TOKEN")

\* req.headers['user-agent'] || ''
UserAgentOf(req) ==
    IF Hdr(req, "user-agent") = {} THEN "" ELSE The(Hdr(req, "user-agent"))

BrowserPatterns == {"mozilla", "chrome", "safari", "firefox", "edge"}

\* /Mozilla|Chrome|Safari|Firefox|Edge/i.test(ua)
BrowserPattern(ua) == \E p \in BrowserPatterns : Includes(ToLower(ua), p)

\* the pattern, tabulated once over the User-Agent values of the inputs
BrowserPatternTable ==
    [ua \in {IF h = {} THEN "" ELSE The(h) : h \in UserAgents} |-> BrowserPattern(ua)]

isBrowser(req) ==
    IF UserAgentOf(req) \in DOMAIN BrowserPatternTable
    THEN BrowserPatternTable[UserAgentOf(req)]
    ELSE BrowserPattern(UserAgentOf(req))

\* header?.includes('text/html'), undefined being falsy
IncludesTextHtml(h) == h # {} /\ Includes(The(h), "text/html")

\* the same, tabulated once over the Accept values of the inputs
IncludesTextHtmlTable == [h \in Accepts |-> IncludesTextHtml(h)]

\* req.headers.accept?.includes('text/html')
acceptsHtml(req) ==
    IF Hdr(req, "accept") \in Accepts THEN IncludesTextHtmlTable[Hdr(req, "accept")]
    ELSE IncludesTextHtml(Hdr(req, "accept"))

(***************************************************************************)
(* Connection records.  events lists, in order, what the dispatcher did    *)
(* with the connection; status 0 stands for no response written.           *)
(***************************************************************************)

NoRequest == [url |-> "", headers |-> EmptyObject]

Idle ==
    [kind |-> "none", req |-> NoRequest, ns |-> "none", verified |-> {},
     events |-> <<>>, ipv6 |-> {}, status |-> 0, resHeaders |-> EmptyObject,
     body |-> "", socket |-> "open", session |-> {}]

NoPrev == [url |-> "", kind |-> "none", ns |-> "none", events |-> <<>>]

\* the page handleHttpVerification writes: sets the cookie by script, reloads
ChallengePage == "<script>document.cookie=verified=ok;reload</script><noscript>"

\* the page verifyMiddleware writes: reloads, sets no cookie
MiddlewarePage == "<script>reload</script><noscript>"

ChallengeSetCookie == "verified=ok; Max-Age=86400; Path=/; HttpOnly; SameSite=Lax"

\* a bug the classifier could have: the predicate also looks at a header
shouldRouteByAgent(req) == StartsWith(req.url, "/bare/") /\ isBrowser(req)

\* bare.shouldRoute of createBareServer('/bare/'): the path is under the mount
shouldRoute(req) == StartsWith(req.url, "/bare/")

\* a bug handleHttpVerification could have: no return after the 403, so the
\* request is answered and next() is called as well
handleHttpVerificationNoReturn(c) ==
    IF ~acceptsHtml(c.req) THEN [next |-> TRUE, c |-> c]
    ELSE LET v == isVerified(c.req)
             c1 == [c EXCEPT !.verified = {v}]
         IN  IF v /\ isBrowser(c.req) THEN [next |-> TRUE, c |-> c1]
             ELSE IF ~isBrowser(c.req)
             THEN [next |-> TRUE,
                   c |-> [c1 EXCEPT !.status = 403,
                                    !.resHeaders = "Content-Type" :> "text/plain",
                                    !.body = "Forbidden",
                                    !.events = @ \o <<"403">>]]
             ELSE [next |-> FALSE,
                   c |-> [c1 EXCEPT !.status = 200,
                                    !.resHeaders = ("Content-Type" :> "text/html")
                                        @@ ("Set-Cookie" :> ChallengeSetCookie),
                                    !.body = ChallengePage,
                                    !.events = @ \o <<"challenge">>]]

(***************************************************************************)
(* handleHttpVerification: what it does to the connection c.  next is      *)
(* TRUE when it called next(), and then the caller goes on.                *)
(***************************************************************************)
handleHttpVerification(c) ==
    IF ~acceptsHtml(c.req) THEN [next |-> TRUE, c |-> c]
    ELSE LET v == isVerified(c.req)
             c1 == [c EXCEPT !.verified = {v}]
         IN  IF v /\ isBrowser(c.req) THEN [next |-> TRUE, c |-> c1]
             ELSE IF ~isBrowser(c.req)
             THEN [next |-> FALSE,
                   c |-> [c1 EXCEPT !.status = 403,
                                    !.resHeaders = "Content-Type" :> "text/plain",
                                    !.body = "Forbidden",
                                    !.events = @ \o <<"403">>]]
             ELSE [next |-> FALSE,
                   c |-> [c1 EXCEPT !.status = 200,
                                    !.resHeaders = ("Content-Type" :> "text/html")
                                        @@ ("Set-Cookie" :> ChallengeSetCookie),
                                    !.body = ChallengePage,
                                    !.events = @ \o <<"challenge">>]]

\* a bug handleUpgradeVerification could have: no bypass for the WISP prefix
handleUpgradeVerificationNoBypass(c) ==
    LET verified == isVerified(c.req)
        c1 == [c EXCEPT !.verified = {verified}]
    IN  IF verified /\ isBrowser(c.req) THEN [next |-> TRUE, c |-> c1]
        ELSE [next |-> FALSE,
              c |-> [c1 EXCEPT !.socket = "destroyed",
                               !.events = @ \o <<"socket.destroy">>]]

(***************************************************************************)
(* handleUpgradeVerification                                               *)
(***************************************************************************)
handleUpgradeVerification(c) ==
    LET verified == isVerified(c.req)
        isWsBrowser == isBrowser(c.req)
        c1 == [c EXCEPT !.verified = {verified}]
    IN  IF StartsWith(c.req.url, "/wisp/") THEN [next |-> TRUE, c |-> c1]
        ELSE IF verified /\ isWsBrowser THEN [next |-> TRUE, c |-> c1]
        ELSE [next |-> FALSE,
              c |-> [c1 EXCEPT !.socket = "destroyed",
                               !.events = @ \o <<"socket.destroy">>]]

\* a bug the callbacks could have: the handler is invoked before the tagging
ForwardThenTag(c, i, handler) ==
    [c EXCEPT !.ipv6 = {getRandomIPv6(i)}, !.events = @ \o <<handler, "tag">>]

\* the next() callbacks of the dispatcher: tag the request, then hand it over
Forward(c, i, handler) ==
    [c EXCEPT !.ipv6 = {getRandomIPv6(i)}, !.events = @ \o <<"tag", handler>>]

(***************************************************************************)
(* The application server up to its verification middleware                *)
(***************************************************************************)

\* the rest of a string after its first occurrence of sep ("" when none)
RECURSIVE Join(_, _)
Join(parts, sep) ==
    IF Len(parts) = 0 THEN ""
    ELSE IF Len(parts) = 1 THEN parts[1]
    ELSE parts[1] \o sep \o Join(Tail(parts), sep)

\* cookie-parser: pairs cut at the first '=', pairs without '=' skipped,
\* names and values trimmed, the first cookie of a name kept
RECURSIVE CookieParserReduce(_, _)
CookieParserReduce(acc, segs) ==
    IF segs = <<>> THEN acc
    ELSE LET parts == Split(Head(segs), "=")
             name  == Trim(parts[1])
             value == Trim(Join(Tail(parts), "="))
         IN  IF Len(parts) < 2 THEN CookieParserReduce(acc, Tail(segs))
             ELSE CookieParserReduce(acc @@ (name :> {value}), Tail(segs))

cookieParser(header) ==
    IF header = {} THEN EmptyObject
    ELSE CookieParserReduce(EmptyObject, Split(The(header), ";"))

\* cookieParser, tabulated once over the Cookie headers of the inputs
CookieParserTable == [h \in CookieHeaders |-> cookieParser(h)]

\* req.cookies as cookie-parser leaves it
ReqCookies(req) ==
    IF Hdr(req, "cookie") \in CookieHeaders THEN CookieParserTable[Hdr(req, "cookie")]
    ELSE cookieParser(Hdr(req, "cookie"))

\* a bug verifyMiddleware could have: no concession for requests that do not
\* accept HTML, every unverified browser is challenged
verifyMiddlewareNoConcession(c) ==
    LET verified == \/ Prop(ReqCookies(c.req), "verified") = {"ok"}
                    \/ Hdr(c.req, "x-bot-token") = EnvGet("BOT_TOKEN")
        c1 == [c EXCEPT !.verified = {verified}]
    IN  IF ~isBrowser(c.req)
        THEN [c1 EXCEPT !.status = 403, !.body = "Forbidden",
                        !.events = @ \o <<"403">>]
        ELSE IF verified /\ isBrowser(c.req)
        THEN [c1 EXCEPT !.events = @ \o <<"next">>]
        ELSE [c1 EXCEPT !.session = @ \cup {"verified"},
                        !.status = 200, !.body = MiddlewarePage,
                        !.events = @ \o <<"challenge">>]

\* verifyMiddleware on the connection c
verifyMiddleware(c) ==
    LET verified == \/ Prop(ReqCookies(c.req), "verified") = {"ok"}
                    \/ Hdr(c.req, "x-bot-token") = EnvGet("BOT_TOKEN")
        c1 == [c EXCEPT !.verified = {verified}]
    IN  IF ~isBrowser(c.req)
        THEN [c1 EXCEPT !.status = 403, !.body = "Forbidden",
                        !.events = @ \o <<"403">>]
        ELSE IF verified /\ isBrowser(c.req)
        THEN [c1 EXCEPT !.events = @ \o <<"next">>]
        ELSE IF ~acceptsHtml(c.req)
        THEN [c1 EXCEPT !.events = @ \o <<"next">>]
        ELSE [c1 EXCEPT !.session = @ \cup {"verified"},
                        !.status = 200, !.body = MiddlewarePage,
                        !.events = @ \o <<"challenge">>]

(***************************************************************************)
(* The middleware chain of the application, in the order of registration.  *)
(* The requests of the model are GET requests without a query string.      *)
(***************************************************************************)

\* the files under public/ that express.static finds
PublicFiles == {"/index.html", "/sitemap.xsl", "/404.html"}

Pass(name) == [type |-> "pass", name |-> name]

Static(mount, files) == [type |-> "static", mount |-> mount, files |-> files]

Limiter(mount) == [type |-> "limiter", mount |-> mount]

\* app.get(path, handler) with the status the handler answers to a request
\* that has no session
Route(path, isPrefix, status) ==
    [type |-> "route", path |-> path, isPrefix |-> isPrefix, status |-> status]

\* app.use(...) and app.get(...) as server.js calls them, top to bottom
Layers ==
    << Pass("cors"), Pass("express.json"), Pass("express.urlencoded"),
       Pass("fileUpload"), Pass("session"), Pass("cookieParser"),
       Static("/baremux/", {}), Static("/epoxy/", {}), Static("/libcurl/", {}),
       [type |-> "verifyMiddleware"],
       Limiter("/bare/"), Limiter("/api/"),
       Pass("cors"), Pass("express.json"), Pass("express.urlencoded"),
       Pass("fileUpload"), Pass("session"), Pass("headers"),
       Route("/results/", TRUE, 200),
       Route("/api/profile", FALSE, 401),
       Route("/auth/callback", FALSE, 200),
       Route("/api/load-localstorage", FALSE, 401),
       Static("/", PublicFiles),
       [type |-> "notFound"],
       Static("/", PublicFiles),
       Route("/sitemap.xml", FALSE, 200),
       Route("/sitemap.json", FALSE, 200),
       Route("/sitemap.txt", FALSE, 200) >>

\* a mount path without its trailing slash
MountPoint(mount) ==
    IF Len(mount) > 0 /\ SubSeq(mount, Len(mount), Len(mount)) = "/"
    THEN SubSeq(mount, 1, Len(mount) - 1) ELSE mount

\* the path is the mount point or lies under it
Mounted(url, mount) ==
    \/ url = MountPoint(mount)
    \/ StartsWith(url, MountPoint(mount) \o "/")

\* the path below the mount point
BelowMount(url, mount) == SubSeq(url, Len(MountPoint(mount)) + 1, Len(url))

\* the layer answers the request itself
Answer(c, event, status) == [c EXCEPT !.status = status, !.events = @ \o <<event>>]

\* the layers from the k-th on handle the connection c; limited tells
\* whether the rate limiter has counted the client over its limit
RECURSIVE RunLayers(_, _, _)
RunLayers(c, k, limited) ==
    IF k > Len(Layers) THEN Answer(c, "finalhandler", 404)
    ELSE LET layer == Layers[k]
             next == RunLayers(c, k + 1, limited)
         IN  CASE layer.type = "pass" -> next
               [] layer.type = "static" ->
                    IF /\ Mounted(c.req.url, layer.mount)
                       /\ BelowMount(c.req.url, layer.mount) \in layer.files
                    THEN Answer(c, "static", 200) ELSE next
               [] layer.type = "verifyMiddleware" ->
                    LET c1 == verifyMiddleware(c)
                    IN  IF c1.events[Len(c1.events)] = "next"
                        THEN RunLayers(c1, k + 1, limited) ELSE c1
               [] layer.type = "limiter" ->
                    IF Mounted(c.req.url, layer.mount) /\ limited
                    THEN Answer(c, "429", 429) ELSE next
               [] layer.type = "route" ->
                    IF \/ ~layer.isPrefix /\ c.req.url = layer.path
                       \/ layer.isPrefix /\ StartsWith(c.req.url, layer.path)
                                         /\ Len(c.req.url) > Len(layer.path)
                    THEN Answer(c, "route " \o layer.path, layer.status) ELSE next
               [] layer.type = "notFound" -> Answer(c, "404", 404)

\* app.handle(req, res)
AppHandle(c, limited) ==
    RunLayers([c EXCEPT !.events = @ \o <<"app.handle">>], 1, limited)

(***************************************************************************)
(* Connection Dispatcher                                                   *)
(***************************************************************************)

NewConn(kind, req) == [Idle EXCEPT !.kind = kind, !.req = req]

\* the body of createServer((req, res) => ...): what becomes of the request
HttpDispatch(req) ==
    IF shouldRoute(req)
    THEN LET r == handleHttpVerification(
                     [NewConn("http", req) EXCEPT !.ns = "ProxyNamespace"])
         IN  IF r.next
             THEN \E i \in RandomDraws :
                     conn' = Forward(r.c, i, "bare.routeRequest")
             ELSE conn' = r.c
    ELSE \E limited \in BOOLEAN :
            conn' = AppHandle([NewConn("http", req) EXCEPT !.ns = "AppNamespace"],
                              limited)

\* createServer((req, res) => ...)
HttpRequest(req) ==
    /\ conn = Idle
    /\ HttpDispatch(req)
    /\ UNCHANGED <<env, prev, satisfied, signupVars, alloc, toolVars>>

\* server.on('upgrade', (req, socket, head) => ...)
UpgradeRequest(req) ==
    /\ conn = Idle
    /\ IF shouldRoute(req)
       THEN LET r == handleUpgradeVerification(
                        [NewConn("upgrade", req) EXCEPT !.ns = "ProxyNamespace"])
            IN  IF r.next
                THEN \E i \in RandomDraws :
                        conn' = Forward(r.c, i, "bare.routeUpgrade")
                ELSE conn' = r.c
       ELSE IF StartsWith(req.url, "/wisp/")
       THEN LET r == handleUpgradeVerification(
                        [NewConn("upgrade", req) EXCEPT !.ns = "WispNamespace"])
            IN  IF r.next
                THEN \E i \in RandomDraws :
                        conn' = Forward(r.c, i, "wisp.routeRequest")
                ELSE conn' = r.c
       ELSE conn' = [NewConn("upgrade", req) EXCEPT !.ns = "AppNamespace",
                                                   !.socket = "ended",
                                                   !.events = <<"socket.end">>]
    /\ UNCHANGED <<env, prev, satisfied, signupVars, alloc, toolVars>>

\* the token of c satisfied prior verification: verified without the cookie
TokenSatisfied(c) ==
    /\ c.verified = {TRUE}
    /\ Prop(CookiesOf(c.req), "verified") # {"ok"}
    /\ Prop(ReqCookies(c.req), "verified") # {"ok"}

\* the connection object is released once the dispatcher has handed it over
\* or answered it; what it was is remembered for comparing with the next one
Remember ==
    /\ prev' = [url |-> conn.req.url, kind |-> conn.kind, ns |-> conn.ns,
                 events |-> conn.events]
    /\ satisfied' = IF TokenSatisfied(conn)
                    THEN satisfied \cup {Hdr(conn.req, "x-bot-token")}
                    ELSE satisfied

Release ==
    /\ conn # Idle
    /\ Remember
    /\ conn' = Idle
    /\ UNCHANGED <<env, signupVars, alloc, toolVars>>

(***************************************************************************)
(* The client of a challenged request: it stores the cookie of the         *)
(* Set-Cookie header and loads the same path again.                        *)
(***************************************************************************)

\* the name=value pair of a Set-Cookie header value
SetCookiePair(setCookie) == Trim(Split(setCookie, ";")[1])

\* the name of a cookie pair; a pair without '=' has the empty name
CookieName(pair) == IF Includes(pair, "=") THEN Split(pair, "=")[1] ELSE ""

\* the cookies of a Cookie header, in order
CookieJar(header) ==
    IF header = {} \/ header = {""} THEN <<>>
    ELSE LET segs == Split(The(header), ";")
         IN  [k \in 1..Len(segs) |-> Trim(segs[k])]

\* the jar after storing a pair: a cookie of the same name is replaced, and
\* the older cookies are sent first
StoreCookie(jar, pair) ==
    LET SameName(p) == CookieName(p) = CookieName(pair)
        OtherName(p) == ~SameName(p)
    IN  SelectSeq(jar, OtherName) \o <<pair>>

\* the Cookie header the client sends after the response of the connection c
ClientCookieHeader(c) ==
    IF "Set-Cookie" \in DOMAIN c.resHeaders
    THEN {Join(StoreCookie(CookieJar(Hdr(c.req, "cookie")),
                           SetCookiePair(c.resHeaders["Set-Cookie"])), "; ")}
    ELSE Hdr(c.req, "cookie")

\* the request the challenge page's script sends: same path and headers,
\* with the cookies the client now holds
RetryOf(c) ==
    [url |-> c.req.url,
     headers |-> OptField("cookie", ClientCookieHeader(c))
                 @@ [n \in DOMAIN c.req.headers \ {"cookie"} |-> c.req.headers[n]]]

\* window.location.replace(window.location.pathname) of the challenge page:
\* the challenged connection is over and the retried request is dispatched
Retry ==
    /\ conn.kind = "http"
    /\ conn.ns = "ProxyNamespace"
    /\ conn.events = <<"challenge">>
    /\ Remember
    /\ HttpDispatch(RetryOf(conn))
    /\ UNCHANGED <<env, signupVars, alloc, toolVars>>

(***************************************************************************)
(* A browser following the challenge page of verifyMiddleware.  The page   *)
(* only reloads the path; the response sets no cookie: the middleware      *)
(* writes req.session.verified, and express-session, configured with       *)
(* cookie: { secure: true }, issues no session cookie over the server's    *)
(* plain HTTP.                                                             *)
(***************************************************************************)

\* the application answered the connection with verifyMiddleware's challenge
AppChallenged(c) ==
    /\ c.kind = "http"
    /\ c.ns = "AppNamespace"
    /\ c.events = <<"app.handle", "challenge">>

\* setTimeout(() => window.location.replace(window.location.pathname), 100)
\* of verifyMiddleware's page: the challenged connection is over and the
\* reloaded request is dispatched
RetryApp ==
    /\ AppChallenged(conn)
    /\ Remember
    /\ HttpDispatch(RetryOf(conn))
    /\ UNCHANGED <<env, signupVars, alloc, toolVars>>

\* a connection that was not challenged ends
Leave ==
    /\ ~AppChallenged(conn)
    /\ Release

(***************************************************************************)
(* Random Address Allocator: IPv6Rotator (ipv6-rotator.js) and the draws   *)
(* the two allocators are driven with                                      *)
(***************************************************************************)

\* the largest value of Math.floor(Math.random() * 5000) + 1
MaxDraw == 5000

\* the draws 1..LowDraws are all taken, the larger ones are sampled
LowDraws == 300

AllocatorDraws == (1..LowDraws) \cup {4095, 4096, MaxDraw}

\* constructor(prefix = '2607:5300:205:200')
RotatorPrefix == "2607:5300:205:200"

\* this.reservedRanges: { start: 0x1, end: 0xc4 }
ReservedRanges == {[start |-> 1, end |-> 196]}

\* Buffer.prototype.toString('hex'): two digits for each byte
RECURSIVE BytesHex(_)
BytesHex(bytes) ==
    IF bytes = <<>> THEN ""
    ELSE HexDigit(Head(bytes) \div 16) \o HexDigit(Head(bytes) % 16)
         \o BytesHex(Tail(bytes))

\* the value of one hexadecimal digit
HexValue(c) ==
    CHOOSE d \in 0..15 : HexDigit(d) = c

\* parseInt(s, 16) of a string of hexadecimal digits
RECURSIVE ParseHex(_)
ParseHex(s) ==
    IF Len(s) = 0 THEN 0
    ELSE 16 * ParseHex(SubSeq(s, 1, Len(s) - 1)) + HexValue(SubSeq(s, Len(s), Len(s)))

\* isReserved(segment)
isReserved(segment) ==
    \E range \in ReservedRanges : segment >= range.start /\ segment <= range.end

\* the do-while of generateRandomIP on the values crypto.randomBytes(8)
\* returns one after the other: the first whose first 16 bits are not
\* reserved, or nothing while the loop has not come to an end
RECURSIVE FirstUnreserved(_)
FirstUnreserved(draws) ==
    IF draws = <<>> THEN {}
    ELSE LET randomHex == BytesHex(Head(draws))
             firstSegment == ParseHex(SubSeq(randomHex, 1, 4))
         IN  IF isReserved(firstSegment) THEN FirstUnreserved(Tail(draws))
             ELSE {randomHex}

\* the for loop of generateRandomIP: randomHex.substr(i, 4) for i = 0, 4, ...
RECURSIVE HexParts(_)
HexParts(randomHex) ==
    IF Len(randomHex) = 0 THEN <<>>
    ELSE <<SubSeq(randomHex, 1, IF Len(randomHex) < 4 THEN Len(randomHex) ELSE 4)>>
         \o HexParts(SubSeq(randomHex, 5, Len(randomHex)))

\* generateRandomIP on the values crypto.randomBytes(8) returns
generateRandomIP(draws) ==
    {RotatorPrefix \o "::" \o Join(HexParts(randomHex), ":") :
        randomHex \in FirstUnreserved(draws)}

\* values of crypto.randomBytes(8): first 16 bits 0, 1, 0xc4, 0xc5, 0x100, 0xffff
RandomBytes ==
    {<<0, 0, 0, 0, 0, 0, 0, 1>>, <<0, 1, 171, 205, 0, 0, 18, 52>>,
     <<0, 196, 1, 2, 3, 4, 5, 6>>, <<0, 197, 0, 0, 0, 0, 0, 0>>,
     <<1, 0, 255, 255, 255, 255, 255, 255>>, <<255, 255, 10, 11, 12, 13, 14, 15>>}

\* the most iterations of the do-while that are followed
MaxAttempts == 2

DrawSequences ==
    UNION {[1..n -> RandomBytes] : n \in 1..MaxAttempts}

\* getRandomIPv6()
GetRandomIPv6(i) ==
    /\ alloc' = [by |-> "getRandomIPv6", address |-> getRandomIPv6(i)]
    /\ UNCHANGED <<env, gatewayVars, signupVars, toolVars>>

\* rotator.generateRandomIP()
GenerateRandomIP(draws) ==
    /\ generateRandomIP(draws) # {}
    /\ alloc' = [by |-> "generateRandomIP", address |-> The(generateRandomIP(draws))]
    /\ UNCHANGED <<env, gatewayVars, signupVars, toolVars>>

(***************************************************************************)
(* Bot tokens of the signup form (server/api/signup.js): string helpers    *)
(***************************************************************************)

Base64Alphabet == "ABCDEFGHIJKLMNOPQRSTUVWXYZabcdefghijklmnopqrstuvwxyz0123456789+/"

IsBase64Char(c) == \E v \in 0..63 : SubSeq(Base64Alphabet, v + 1, v + 1) = c

Base64Value(c) == CHOOSE v \in 0..63 : SubSeq(Base64Alphabet, v + 1, v + 1) = c

\* the six-bit values of the characters before the first '='; characters
\* outside the alphabet are skipped, as Buffer.from(token, 'base64') does
RECURSIVE Sextets(_)
Sextets(s) ==
    IF Len(s) = 0 \/ SubSeq(s, 1, 1) = "=" THEN <<>>
    ELSE IF IsBase64Char(SubSeq(s, 1, 1))
         THEN <<Base64Value(SubSeq(s, 1, 1))>> \o Sextets(SubSeq(s, 2, Len(s)))
         ELSE Sextets(SubSeq(s, 2, Len(s)))

\* the bytes of a run of six-bit values, an incomplete last group included
RECURSIVE Octets(_)
Octets(q) ==
    IF Len(q) >= 4
    THEN <<q[1] * 4 + q[2] \div 16, (q[2] % 16) * 16 + q[3] \div 4, (q[3] % 4) * 64 + q[4]>>
         \o Octets(SubSeq(q, 5, Len(q)))
    ELSE IF Len(q) = 3 THEN <<q[1] * 4 + q[2] \div 16, (q[2] % 16) * 16 + q[3] \div 4>>
    ELSE IF Len(q) = 2 THEN <<q[1] * 4 + q[2] \div 16>>
    ELSE <<>>

\* toString('utf-8') of one byte: the digits and the colon (codes 48 to 58)
\* and the letters (65 to 90, 97 to 122); any other byte reads as "?"
CharOf(b) ==
    IF b >= 48 /\ b <= 58 THEN SubSeq("0123456789:", b - 47, b - 47)
    ELSE IF b >= 65 /\ b <= 90 THEN SubSeq("ABCDEFGHIJKLMNOPQRSTUVWXYZ", b - 64, b - 64)
    ELSE IF b >= 97 /\ b <= 122 THEN SubSeq("abcdefghijklmnopqrstuvwxyz", b - 96, b - 96)
    ELSE "?"

RECURSIVE Utf8(_)
Utf8(bytes) == IF bytes = <<>> THEN "" ELSE CharOf(Head(bytes)) \o Utf8(Tail(bytes))

\* Buffer.from(token, 'base64').toString('utf-8')
Base64Decode(token) == Utf8(Octets(Sextets(token)))

IsDigit(c) == \E d \in 0..9 : SubSeq("0123456789", d + 1, d + 1) = c

DigitValue(c) == CHOOSE d \in 0..9 : SubSeq("0123456789", d + 1, d + 1) = c

\* the number spelled by the leading digits of s, continuing acc; no digit
\* at all leaves the empty optional (NaN)
RECURSIVE DigitRun(_, _)
DigitRun(s, acc) ==
    IF Len(s) > 0 /\ IsDigit(SubSeq(s, 1, 1))
    THEN DigitRun(SubSeq(s, 2, Len(s)),
                  {(IF acc = {} THEN 0 ELSE The(acc)) * 10 + DigitValue(SubSeq(s, 1, 1))})
    ELSE acc

\* parseInt(s) in base ten: blanks, a sign, then the leading digits
ParseInt(s) ==
    LET t == Trim(s)
    IN  IF StartsWith(t, "-") THEN {0 - n : n \in DigitRun(SubSeq(t, 2, Len(t)), {})}
        ELSE IF StartsWith(t, "+") THEN DigitRun(SubSeq(t, 2, Len(t)), {})
        ELSE DigitRun(t, {})

(***************************************************************************)
(* Inputs of the signup handler                                            *)
(***************************************************************************)

\* base64 of 998000:r1, 998001:r2, 700000:r3, 2500000:r4
WellFormedTokens == {"OTk4MDAwOnIx", "OTk4MDAxOnIy", "NzAwMDAwOnIz", "MjUwMDAwMDpyNA=="}

\* base64 of nocolon, 1:2:3, abc:r5 and 998000: (an empty random part)
MalformedTokens == {"bm9jb2xvbg==", "MToyOjM=", "YWJjOnI1", "OTk4MDAwOg=="}

TokenStrings == WellFormedTokens \cup MalformedTokens

\* the number of signup requests of a run
MaxSignups == 2

\* the instants the clock is read at
ClockPoints == {1000000, 1000001, 1900000, 1900001}

GoodHeaders ==
    ("user-agent" :> "Mozilla/5.0 (X11) Firefox/120") @@ ("accept" :> "application/json")
    @@ ("content-type" :> "application/json") @@ ("x-form-time" :> "5000")

GoodSignup ==
    [email |-> {"a@x.io"}, password |-> {"correcthorse"}, website |-> {},
     bot_token |-> {"OTk4MDAwOnIx"}, headers |-> GoodHeaders,
     remoteAddress |-> {"::ffff:10.0.0.1"}]

\* requests that differ from the good one in the token
TokenSignups ==
    {[GoodSignup EXCEPT !.bot_token = t] : t \in {{}} \cup {{x} : x \in TokenStrings}}

\* requests that differ from the good one in one other field
OtherSignups ==
    {[GoodSignup EXCEPT !.email = {"b@x.io"}],
     [GoodSignup EXCEPT !.email = {"b@x.io"}, !.bot_token = {"OTk4MDAxOnIy"}],
     [GoodSignup EXCEPT !.password = {}],
     [GoodSignup EXCEPT !.password = {"short"}],
     [GoodSignup EXCEPT !.website = {"http://spam.example"}],
     [GoodSignup EXCEPT !.headers = ("user-agent" :> "python-requests/2.31") @@ GoodHeaders],
     [GoodSignup EXCEPT !.headers = ("accept" :> "image/png") @@ GoodHeaders],
     [GoodSignup EXCEPT !.headers = ("content-type" :> "text/plain") @@ GoodHeaders],
     [GoodSignup EXCEPT !.headers = ("x-form-time" :> "100") @@ GoodHeaders],
     [GoodSignup EXCEPT !.headers = ("x-forwarded-for" :> "10.0.0.2, 172.16.0.1") @@ GoodHeaders]}

SignupRequests == TokenSignups \cup OtherSignups

\* process.env of the signup handler: ADMIN_EMAIL unset or set
SignupEnvironments == {EmptyObject, "ADMIN_EMAIL" :> "b@x.io"}

(***************************************************************************)
(* validateBotToken (server/api/signup.js)                                 *)
(***************************************************************************)

MinTokenAge == 2000

MaxTokenAge == 300000

TokenRetention == 900000

\* createHash('sha256').update(token).digest('hex'): one value per token
\* string (collisions of SHA-256 are left out)
Sha256Hex(token) == "sha256:" \o token

\* validateBotToken up to `if (isNaN(timestamp) || !random)`: the timestamp
\* of the token, or nothing when the function has returned false before
TokenTimestamp(token) ==
    IF token = {} \/ token = {""} THEN {}
    ELSE LET parts == Split(Base64Decode(The(token)), ":")
         IN  IF Len(parts) # 2 THEN {}
             ELSE LET timestamp == ParseInt(parts[1])
                      random == parts[2]
                  IN  IF timestamp = {} \/ random = "" THEN {}
                      ELSE timestamp

\* the same, tabulated once over the token strings of the inputs
TokenTimestamps == [t \in TokenStrings |-> TokenTimestamp({t})]

\* `const age = now - timestamp`, or nothing when the function has returned
TokenAge(token, now) ==
    LET timestamp == IF token \subseteq TokenStrings /\ token # {}
                     THEN TokenTimestamps[The(token)]
                     ELSE TokenTimestamp(token)
    IN  {now - ts : ts \in timestamp}

\* a bug the window could have: no upper bound on the age
AgeInWindowNoMax(age) == ~(age < MinTokenAge)

\* a bug the window could have: the two bounds taken exclusive
AgeInWindowExclusive(age) == ~(age <= MinTokenAge) /\ ~(age >= MaxTokenAge)

\* `if (age < 2000) return false; if (age > 300000) return false;`
AgeInWindow(age) == ~(age < MinTokenAge) /\ ~(age > MaxTokenAge)

TokenTimer(tokenHash, now) ==
    [map |-> "usedTokens", key |-> tokenHash, due |-> now + TokenRetention]

\* a bug the registry step could have: the lookup is left out
RegistryStepNoLookup(tokenHash, now, used, tms) ==
    [ok |-> TRUE,
     used |-> (tokenHash :> now) @@ used,
     timers |-> tms \cup {TokenTimer(tokenHash, now)}]

\* a bug the registry step could have: the hash is not recorded
RegistryStepNoInsert(tokenHash, now, used, tms) ==
    IF tokenHash \in DOMAIN used
    THEN [ok |-> FALSE, used |-> used, timers |-> tms]
    ELSE [ok |-> TRUE, used |-> used, timers |-> tms]

\* the lookup and insert of validateBotToken, with the eviction timer
RegistryStep(tokenHash, now, used, tms) ==
    IF tokenHash \in DOMAIN used
    THEN [ok |-> FALSE, used |-> used, timers |-> tms]
    ELSE [ok |-> TRUE,
          used |-> (tokenHash :> now) @@ used,
          timers |-> tms \cup {TokenTimer(tokenHash, now)}]

\* validateBotToken(token) at Date.now() = now on the registry used
validateBotToken(token, now, used, tms) ==
    LET age == TokenAge(token, now)
    IN  IF age = {} \/ ~AgeInWindow(The(age))
        THEN [ok |-> FALSE, used |-> used, timers |-> tms]
        ELSE RegistryStep(Sha256Hex(The(token)), now, used, tms)

(***************************************************************************)
(* validateRequest and signupHandler (server/api/signup.js)                *)
(***************************************************************************)

RateWindow == 3000

SuspiciousLimit == 2

TimestampRetention == 60000

MinFormTime == 2000

MaxFormTime == 3600000

MinUserAgentLength == 10

MinPasswordLength == 8

\* a header of a signup request, or the default the code puts in its place
HdrOr(req, name, default) ==
    IF name \in DOMAIN req.headers THEN req.headers[name] ELSE default

\* getClientIP
getClientIP(req) ==
    LET ip0 == IF "x-forwarded-for" \in DOMAIN req.headers
                    /\ req.headers["x-forwarded-for"] # ""
               THEN {req.headers["x-forwarded-for"]}
               ELSE req.remoteAddress
        ip1 == IF ip0 # {} /\ Includes(The(ip0), ",")
               THEN {Trim(Split(The(ip0), ",")[1])} ELSE ip0
        ip2 == IF ip1 # {} /\ StartsWith(The(ip1), "::ffff:")
               THEN {SubSeq(The(ip1), 8, Len(The(ip1)))} ELSE ip1
    IN  IF ip2 = {} \/ ip2 = {""} THEN "unknown" ELSE The(ip2)

BotAgentPatterns ==
    {"bot", "crawler", "spider", "scraper", "curl", "wget", "python", "java",
     "go-http", "php", "ruby", "perl", "headless", "puppeteer", "selenium"}

\* botPatterns.some((pattern) => pattern.test(userAgent))
BotAgent(ua) == \E p \in BotAgentPatterns : Includes(ToLower(ua), p)

\* map.get(key) || 0
GetOr0(map, key) == IF key \in DOMAIN map THEN map[key] ELSE 0

\* map.set(key, value)
MapSet(map, key, value) == (key :> value) @@ map

\* map.delete(key)
MapDelete(map, key) == [k \in DOMAIN map \ {key} |-> map[k]]

NoCall == [token |-> {}, now |-> 0, ok |-> FALSE, known |-> FALSE]

\* the state validateRequest works on
SignupState ==
    [used |-> usedTokens, tms |-> timers, rts |-> requestTimestamps,
     sus |-> suspiciousIPs, acc |-> accepted, call |-> lastCall]

\* the header checks of validateRequest after the token check
HeaderChecks(req) ==
    LET userAgent == HdrOr(req, "user-agent", "")
        accept == HdrOr(req, "accept", "")
        contentType == HdrOr(req, "content-type", "")
        formTime == ParseInt(HdrOr(req, "x-form-time", "0"))
    IN  /\ ~(userAgent = "" \/ Len(userAgent) < MinUserAgentLength)
        /\ ~BotAgent(userAgent)
        /\ ~(/\ ~Includes(accept, "application/json")
             /\ ~Includes(accept, "*/*")
             /\ ~Includes(accept, "text/html"))
        /\ Includes(contentType, "application/json")
        /\ ~(formTime # {} /\ (The(formTime) < MinFormTime \/ The(formTime) > MaxFormTime))

\* the header checks and the client address, tabulated once over the inputs
HeaderChecksTable == [req \in SignupRequests |-> HeaderChecks(req)]

HeadersPass(req) ==
    IF req \in SignupRequests THEN HeaderChecksTable[req] ELSE HeaderChecks(req)

ClientIPTable == [req \in SignupRequests |-> getClientIP(req)]

ClientIP(req) == IF req \in SignupRequests THEN ClientIPTable[req] ELSE getClientIP(req)

\* the rate limit of validateRequest, from `const now = Date.now()` on
RateStep(ip, now, st) ==
    LET ipKey == "signup_" \o ip
        lastRequest == GetOr0(st.rts, ipKey)
        close == now - lastRequest < RateWindow
        suspiciousCount == GetOr0(st.sus, ip)
        st1 == IF close THEN [st EXCEPT !.sus = MapSet(@, ip, suspiciousCount + 1)]
               ELSE st
    IN  IF close /\ suspiciousCount > SuspiciousLimit
        THEN [ok |-> FALSE, st |-> st1]
        ELSE [ok |-> TRUE,
              st |-> [st1 EXCEPT
                        !.rts = MapSet(@, ipKey, now),
                        !.tms = @ \cup {[map |-> "requestTimestamps", key |-> ipKey,
                                         due |-> now + TimestampRetention]}]]

\* validateRequest(req, { website, bot_token })
validateRequest(req, now, st) ==
    IF req.website # {} /\ Trim(The(req.website)) # "" THEN [ok |-> FALSE, st |-> st]
    ELSE IF req.bot_token = {} \/ req.bot_token = {""} THEN [ok |-> FALSE, st |-> st]
    ELSE LET v == validateBotToken(req.bot_token, now, st.used, st.tms)
             tok == The(req.bot_token)
             st1 == [st EXCEPT
                       !.used = v.used,
                       !.tms = v.timers,
                       !.acc = IF v.ok THEN [@ EXCEPT ![tok] = @ + 1] ELSE @,
                       !.call = [token |-> req.bot_token, now |-> now, ok |-> v.ok,
                                 known |-> Sha256Hex(tok) \in DOMAIN st.used]]
         IN  IF ~v.ok THEN [ok |-> FALSE, st |-> st1]
             ELSE IF ~HeadersPass(req) THEN [ok |-> FALSE, st |-> st1]
             ELSE RateStep(ClientIP(req), now, st1)

\* the state validateRequest left goes back into the variables
Store(st) ==
    /\ usedTokens' = st.used
    /\ timers' = st.tms
    /\ requestTimestamps' = st.rts
    /\ suspiciousIPs' = st.sus
    /\ accepted' = st.acc
    /\ lastCall' = st.call

\* signupHandler up to `await argon2.hash(...)`: one run of the event loop
SignupStart(req) ==
    /\ started < MaxSignups
    /\ started' = started + 1
    /\ IF req.email = {} \/ req.email = {""} \/ req.password = {} \/ req.password = {""}
       THEN /\ lastStatus' = 400
            /\ Store(SignupState)
            /\ UNCHANGED pending
       ELSE IF Len(The(req.password)) < MinPasswordLength
       THEN /\ lastStatus' = 400
            /\ Store(SignupState)
            /\ UNCHANGED pending
       ELSE LET r == validateRequest(req, clock, SignupState)
                ip == ClientIP(req)
            IN  IF ~r.ok
                THEN /\ Store([r.st EXCEPT !.sus = MapSet(@, ip, GetOr0(@, ip) + 1)])
                     /\ lastStatus' = 400
                     /\ UNCHANGED pending
                ELSE IF The(req.email) \in DOMAIN users
                THEN /\ Store(r.st)
                     /\ lastStatus' = 400
                     /\ UNCHANGED pending
                ELSE /\ Store(r.st)
                     /\ pending' = (started + 1 :>
                                      [email |-> The(req.email), ip |-> ip,
                                       token |-> The(req.bot_token)]) @@ pending
                     /\ UNCHANGED lastStatus
    /\ UNCHANGED <<env, gatewayVars, alloc, toolVars, clock, users>>

\* signupHandler after the await, argon2.hash having resolved
SignupFinish(id) ==
    /\ id \in DOMAIN pending
    /\ LET p == pending[id]
           isFirstUser == DOMAIN users = {}
           isAdmin == isFirstUser \/ {p.email} = EnvGet("ADMIN_EMAIL")
       IN  IF p.email \in DOMAIN users
           THEN \* the INSERT violates UNIQUE(email) and throws
                /\ lastStatus' = 500
                /\ UNCHANGED <<users, requestTimestamps>>
           ELSE /\ users' = (p.email :> (IF isAdmin THEN 1 ELSE 0)) @@ users
                /\ requestTimestamps' = MapDelete(requestTimestamps, "signup_" \o p.ip)
                /\ lastStatus' = 201
    /\ pending' = MapDelete(pending, id)
    /\ UNCHANGED <<env, gatewayVars, alloc, toolVars, clock, usedTokens, suspiciousIPs, timers,
                   started, accepted, lastCall>>

\* signupHandler after the await, argon2.hash having rejected
SignupHashFails(id) ==
    /\ id \in DOMAIN pending
    /\ lastStatus' = 500
    /\ pending' = MapDelete(pending, id)
    /\ UNCHANGED <<env, gatewayVars, alloc, toolVars, clock, usedTokens, requestTimestamps,
                   suspiciousIPs, timers, users, started, accepted, lastCall>>

\* a setTimeout callback runs, not before it is due
TimerFires(tm) ==
    /\ tm \in timers
    /\ clock >= tm.due
    /\ timers' = timers \ {tm}
    /\ IF tm.map = "usedTokens"
       THEN usedTokens' = MapDelete(usedTokens, tm.key) /\ UNCHANGED requestTimestamps
       ELSE requestTimestamps' = MapDelete(requestTimestamps, tm.key)
            /\ UNCHANGED usedTokens
    /\ UNCHANGED <<env, gatewayVars, alloc, toolVars, clock, suspiciousIPs, users, pending, started,
                   accepted, lastCall, lastStatus>>

\* time passes
Tick(t) ==
    /\ t \in ClockPoints
    /\ t > clock
    /\ clock' = t
    /\ UNCHANGED <<env, gatewayVars, alloc, toolVars, usedTokens, requestTimestamps, suspiciousIPs,
                   timers, users, pending, started, accepted, lastCall, lastStatus>>

SignupIdle ==
    /\ clock = 1000000
    /\ usedTokens = EmptyObject
    /\ requestTimestamps = EmptyObject
    /\ suspiciousIPs = EmptyObject
    /\ timers = {}
    /\ users = EmptyObject
    /\ pending = EmptyObject
    /\ started = 0
    /\ accepted = [t \in TokenStrings |-> 0]
    /\ lastCall = NoCall
    /\ lastStatus = 0

(***************************************************************************)
(* Sitemap helpers: computePriority and computeChangefreq of               *)
(* server/helpers/sitemap.js (the same two functions are in src/server.js  *)
(* and src/build.js).                                                      *)
(*                                                                         *)
(* The quotient of two integers is the pair <<numerator, denominator>>     *)
(* with a positive denominator, compared by cross-multiplication.  A time  *)
(* in milliseconds is a record of whole days and the milliseconds left     *)
(* over, 0 <= ms < MsPerDay.                                               *)
(***************************************************************************)

RatLeq(a, b) == a[1] * b[2] <= b[1] * a[2]

RatEq(a, b) == a[1] * b[2] = b[1] * a[2]

\* Math.max and Math.min of two quotients
RatMax(a, b) == IF RatLeq(a, b) THEN b ELSE a

RatMin(a, b) == IF RatLeq(a, b) THEN a ELSE b

\* computePriority without the lower clamp
computePriorityNoFloor(commitCount, maxCommits) ==
    IF maxCommits = 0 THEN <<1, 2>>
    ELSE RatMin(<<1, 1>>, <<commitCount, maxCommits>>)

computePriority(commitCount, maxCommits) ==
    IF maxCommits = 0 THEN <<1, 2>>
    ELSE LET normalized == <<commitCount, maxCommits>>
         IN  RatMax(<<1, 10>>, RatMin(<<1, 1>>, normalized))

\* 1000 * 60 * 60 * 24
MsPerDay == 86400000

\* Date.now() - last.getTime()
Elapsed(now, last) ==
    IF now.ms >= last.ms
    THEN [day |-> now.day - last.day, ms |-> now.ms - last.ms]
    ELSE [day |-> now.day - last.day - 1, ms |-> now.ms - last.ms + MsPerDay]

\* days <= k and days < k, for days = elapsed / MsPerDay
DaysLeq(elapsed, k) == elapsed.day < k \/ (elapsed.day = k /\ elapsed.ms = 0)

DaysLess(elapsed, k) == elapsed.day < k

\* computeChangefreq with < in place of <=
computeChangefreqStrict(now, lastmod) ==
    IF lastmod = {} THEN "yearly"
    ELSE LET days == Elapsed(now, The(lastmod))
         IN  IF DaysLess(days, 7) THEN "daily"
             ELSE IF DaysLess(days, 30) THEN "weekly"
             ELSE IF DaysLess(days, 180) THEN "monthly"
             ELSE "yearly"

\* lastmod is the time new Date(lastmod) denotes, or none for an Invalid
\* Date, whose getTime() is NaN and fails every comparison
computeChangefreq(now, lastmod) ==
    IF lastmod = {} THEN "yearly"
    ELSE LET days == Elapsed(now, The(lastmod))
         IN  IF DaysLeq(days, 7) THEN "daily"
             ELSE IF DaysLeq(days, 30) THEN "weekly"
             ELSE IF DaysLeq(days, 180) THEN "monthly"
             ELSE "yearly"

MaxCommitCount == 12

CommitCounts == 0..MaxCommitCount

\* the largest commit count of the sitemap: none, one, ten, many
MaxCommits == {0, 1, 10, MaxCommitCount}

\* Date.now() at the calls
SitemapNows == {[day |-> 400, ms |-> 0]}

\* times of last modification: an Invalid Date, a time ahead of the clock,
\* a time long ago, and the times at and next to the three thresholds
Lastmods ==
    {{}, {[day |-> 401, ms |-> 0]}, {[day |-> 0, ms |-> 0]}} \cup
    UNION {{{[day |-> d, ms |-> 0]}, {[day |-> d, ms |-> 1]},
            {[day |-> d - 1, ms |-> MsPerDay - 1]}} : d \in {393, 370, 220}}

NoSitemap == [priority |-> {}, changefreq |-> {}, before |-> {}]

\* one call of computePriority
ComputePriority(commitCount, maxCommits) ==
    /\ sitemap' = [sitemap EXCEPT !.priority =
                     {[commitCount |-> commitCount, maxCommits |-> maxCommits,
                       result |-> computePriority(commitCount, maxCommits)]}]
    /\ UNCHANGED <<env, gatewayVars, signupVars, alloc, report, pool, proc, db>>

\* one call of computeChangefreq; the call before it is kept
ComputeChangefreq(now, lastmod) ==
    /\ sitemap' = [sitemap EXCEPT
                     !.before = sitemap.changefreq,
                     !.changefreq =
                        {[now |-> now, lastmod |-> lastmod,
                          result |-> computeChangefreq(now, lastmod)]}]
    /\ UNCHANGED <<env, gatewayVars, signupVars, alloc, report, pool, proc, db>>

NextSitemap ==
    \/ \E c \in CommitCounts, m \in MaxCommits : ComputePriority(c, m)
    \/ \E now \in SitemapNows, lastmod \in Lastmods : ComputeChangefreq(now, lastmod)

(***************************************************************************)
(* computeReport (server/helpers/rebuild-check.js).                        *)
(*                                                                         *)
(* The function runs to its next await in one step.  The hooks, validate   *)
(* and transform are the caller's: each returns or throws as it likes.     *)
(* Records are numbered from 1; the output of record i is i.               *)
(***************************************************************************)

MaxRecords == 2

\* the records argument: not an array, or an array of n records
ReportRecords == {{}} \cup {{n} : n \in 0..MaxRecords}

\* options.retry.attempts: left out, or a number
RetryAttempts == {{}, {-1}, {0}, {1}, {2}}

\* options: the signal is left out, given, or given already aborted
ReportOptions ==
    [strict : BOOLEAN, validate : BOOLEAN, transform : BOOLEAN,
     attempts : RetryAttempts, signal : {"none", "live", "aborted"}]

HookOutcomes == {"returns", "throws"}

ValidateOutcomes == {"true", "false", "throws"}

NoReport ==
    [pc |-> "idle", records |-> {}, options |-> {}, aborted |-> FALSE,
     i |-> 0, attempt |-> 0, outputs |-> <<>>, diagnostics |-> <<>>,
     result |-> {}, rejected |-> FALSE,
     calls |-> <<>>, resolved |-> {}, abortedAt |-> "", lateCalls |-> 0]

\* failure, finalizeFailure and handleError: the result of a failed call
Failure(r, code) ==
    [r EXCEPT !.pc = "done",
              !.diagnostics = Append(@, code),
              !.result = {[ok |-> FALSE, error |-> code, data |-> <<>>, count |-> 0]}]

\* Math.max(0, retry.attempts ?? 0)
AttemptMax(r) ==
    LET attempts == IF The(r.options).attempts = {} THEN 0
                    ELSE The(The(r.options).attempts)
    IN  IF attempts > 0 THEN attempts ELSE 0

\* if (attempt > attemptMax), one attempt too many
RetryExhaustedLate(attempt, attemptMax) == attempt > attemptMax

\* if (attempt >= attemptMax)
RetryExhausted(attempt, attemptMax) == attempt >= attemptMax

\* await transform(item, i): the call is made and the function waits
InvokeTransform(r) ==
    [r EXCEPT !.pc = "transform",
              !.calls[r.i] = @ + 1,
              !.lateCalls = IF r.aborted THEN @ + 1 ELSE @]

\* the head of the for loop for record i, up to await beforeEach
LoopHead(r, i) ==
    IF i > The(r.records) THEN [r EXCEPT !.i = i, !.pc = "afterAll"]
    ELSE IF r.aborted THEN Failure([r EXCEPT !.i = i], "Aborted")
    ELSE [r EXCEPT !.i = i, !.pc = "beforeEach"]

\* computeReport(records, options) up to await beforeAll
ReportCall(records, options) ==
    /\ report.pc = "idle"
    /\ LET r == [NoReport EXCEPT
                    !.records = records, !.options = {options},
                    !.aborted = (options.signal = "aborted"),
                    !.abortedAt = IF options.signal = "aborted" THEN "call" ELSE "",
                    !.calls = IF records = {} THEN <<>>
                              ELSE [k \in 1..The(records) |-> 0]]
       IN  report' =
             IF records = {} THEN Failure(r, "InvalidInput")
             ELSE IF options.strict /\ The(records) = 0 THEN Failure(r, "EmptyInput")
             ELSE IF ~options.transform THEN Failure(r, "InvalidConfig")
             ELSE IF r.aborted THEN Failure(r, "Aborted")
             ELSE [r EXCEPT !.pc = "beforeAll"]
    /\ UNCHANGED <<env, gatewayVars, signupVars, alloc, sitemap, pool, proc, db>>

\* beforeAll settles
BeforeAllDone(outcome) ==
    /\ report.pc = "beforeAll"
    /\ report' = IF outcome = "throws" THEN Failure(report, "HookError")
                 ELSE LoopHead(report, 1)
    /\ UNCHANGED <<env, gatewayVars, signupVars, alloc, sitemap, pool, proc, db>>

\* beforeEach settles; validation; the first call of transform
BeforeEachDone(outcome, valid) ==
    /\ report.pc = "beforeEach"
    /\ The(report.options).validate \/ valid = "true"
    /\ report' =
         IF outcome = "throws" THEN Failure(report, "HookError")
         ELSE IF valid = "true" THEN InvokeTransform([report EXCEPT !.attempt = 0])
         ELSE LET r == [report EXCEPT !.diagnostics =
                           IF valid = "throws"
                           THEN @ \o <<"ValidateException", "InvalidRecord">>
                           ELSE Append(@, "InvalidRecord")]
              IN  IF The(report.options).strict THEN Failure(r, "ValidationFailed")
                  ELSE LoopHead(r, report.i + 1)
    /\ UNCHANGED <<env, gatewayVars, signupVars, alloc, sitemap, pool, proc, db>>

\* transform resolves: the output is pushed
TransformResolves ==
    /\ report.pc = "transform"
    /\ report' = [report EXCEPT !.outputs = Append(@, report.i),
                                !.resolved = @ \cup {report.i},
                                !.pc = "afterEach"]
    /\ UNCHANGED <<env, gatewayVars, signupVars, alloc, sitemap, pool, proc, db>>

\* transform rejects: give up, or count the attempt and wait for the backoff
\* delay; delay returns at once when the signal is already aborted
TransformRejects ==
    /\ report.pc = "transform"
    /\ LET r == [report EXCEPT !.diagnostics = Append(@, "TransformError")]
       IN  report' =
             IF RetryExhausted(report.attempt, AttemptMax(report))
             THEN IF The(report.options).strict THEN Failure(r, "TransformFailed")
                  ELSE [r EXCEPT !.pc = "afterEach"]
             ELSE IF report.aborted
                  THEN Failure([r EXCEPT !.attempt = @ + 1], "Aborted")
                  ELSE [r EXCEPT !.attempt = @ + 1, !.pc = "backoff"]
    /\ UNCHANGED <<env, gatewayVars, signupVars, alloc, sitemap, pool, proc, db>>

\* the timer of delay fires: the signal is checked and transform called again
DelayDone ==
    /\ report.pc = "backoff"
    /\ report' = IF report.aborted THEN Failure(report, "Aborted")
                 ELSE InvokeTransform(report)
    /\ UNCHANGED <<env, gatewayVars, signupVars, alloc, sitemap, pool, proc, db>>

\* afterEach settles
AfterEachDone(outcome) ==
    /\ report.pc = "afterEach"
    /\ report' = IF outcome = "throws" THEN Failure(report, "HookError")
                 ELSE LoopHead(report, report.i + 1)
    /\ UNCHANGED <<env, gatewayVars, signupVars, alloc, sitemap, pool, proc, db>>

\* afterAll settles; the result of a successful call
AfterAllDone(outcome) ==
    /\ report.pc = "afterAll"
    /\ report' =
         IF outcome = "throws" THEN Failure(report, "HookError")
         ELSE [report EXCEPT
                 !.pc = "done",
                 !.result = {[ok |-> TRUE, error |-> "", data |-> report.outputs,
                              count |-> Len(report.outputs)]}]
    /\ UNCHANGED <<env, gatewayVars, signupVars, alloc, sitemap, pool, proc, db>>

\* where the call stands when the signal is aborted
AbortPoint(r) ==
    IF r.pc = "afterEach" /\ r.i < The(r.records) THEN "between" ELSE r.pc

\* controller.abort() while the call is waiting.  While the backoff delay is
\* pending, delay's listener rejects its promise; the await is inside the
\* catch block, so the rejection leaves computeReport.
Abort ==
    /\ report.pc \notin {"idle", "done"}
    /\ The(report.options).signal = "live"
    /\ ~report.aborted
    /\ report' =
         LET r == [report EXCEPT !.aborted = TRUE, !.abortedAt = AbortPoint(report)]
         IN  IF report.pc = "backoff"
             THEN [r EXCEPT !.pc = "done", !.rejected = TRUE]
             ELSE r
    /\ UNCHANGED <<env, gatewayVars, signupVars, alloc, sitemap, pool, proc, db>>

NextReport ==
    \/ \E records \in ReportRecords, options \in ReportOptions :
          ReportCall(records, options)
    \/ \E outcome \in HookOutcomes : BeforeAllDone(outcome)
    \/ \E outcome \in HookOutcomes, valid \in ValidateOutcomes :
          BeforeEachDone(outcome, valid)
    \/ TransformResolves
    \/ TransformRejects
    \/ DelayDone
    \/ \E outcome \in HookOutcomes : AfterEachDone(outcome)
    \/ \E outcome \in HookOutcomes : AfterAllDone(outcome)
    \/ Abort

(***************************************************************************)
(* withConcurrencyLimit: the version of build.js and the version with a    *)
(* flushCallback.                                                          *)
(*                                                                         *)
(* A worker runs to its next await in one step.  Items are numbered from 0 *)
(* as in the code, and the result of fn for item idx, if truthy, is idx.   *)
(* fn resolves to a truthy or a falsy value or rejects, as it likes.       *)
(***************************************************************************)

MaxItems == 3

MaxLimit == 2

\* items.length
ItemCounts == 0..MaxItems

\* limit: both callers pass Math.min(200, Math.max(4, cpus * 4))
Limits == 1..MaxLimit

\* options.flushInterval: reached after one item, or never within a call
FlushIntervals == {1, MaxItems + 1}

FnOutcomes == {"truthy", "falsy", "rejects"}

Min(a, b) == IF a <= b THEN a ELSE b

NoPool ==
    [variant |-> "none", n |-> 0, limit |-> 0, flushInterval |-> 0,
     i |-> 0, results |-> <<>>, lastFlushIndex |-> 0, activeWorkers |-> 0,
     workers |-> <<>>, then |-> "none", returned |-> {},
     invoked |-> <<>>, outcome |-> <<>>, delivered |-> <<>>]

\* the state at the call: Math.min(limit, items.length) workers, none run yet
NewPool(variant, n, limit, flushInterval) ==
    [NoPool EXCEPT
        !.variant = variant, !.n = n, !.limit = limit,
        !.flushInterval = flushInterval,
        !.workers = [w \in 1..Min(limit, n) |-> [pc |-> "new", idx |-> 0]],
        !.invoked = [idx \in 0..(n + limit) |-> 0],
        !.outcome = [idx \in 0..(n + limit) |-> "none"],
        !.delivered = [idx \in 0..(n + limit) |-> 0]]

\* if (result) results.push(result), pushing falsy results too
KeepResultAlways(outcome) == outcome # "rejects"

\* if (result) results.push(result)
KeepResult(outcome) == outcome = "truthy"

\* const idx = i++; ... await fn(items[idx], idx)
CallFn(p, w) ==
    [p EXCEPT !.i = @ + 1,
              !.workers[w] = [pc |-> "fn", idx |-> p.i],
              !.invoked[p.i] = @ + 1]

\* fn settled for worker w: the result is pushed or the error logged
Settled(p, w, outcome) ==
    LET idx == p.workers[w].idx
    IN  [p EXCEPT !.results = IF KeepResult(outcome) THEN Append(@, idx) ELSE @,
                  !.outcome[idx] = outcome]

AllDone(p) == \A w \in DOMAIN p.workers : p.workers[w].pc = "done"

(* build.js *)

\* runWorker from the head of its while loop to the next await
runWorker(p, w) ==
    IF p.i < p.n THEN CallFn(p, w)
    ELSE [p EXCEPT !.workers[w] = [pc |-> "done", idx |-> 0]]

RECURSIVE StartWorkers(_, _)
\* new Array(...).fill(null).map(() => runWorker()), worker w onwards
StartWorkers(p, w) ==
    IF w > Len(p.workers) THEN p ELSE StartWorkers(runWorker(p, w), w + 1)

\* Promise.all(workers).then(() => results)
ThenResults(p) ==
    IF AllDone(p) THEN [p EXCEPT !.then = "resolved", !.returned = {p.results}]
    ELSE p

\* withConcurrencyLimit(items, limit, fn) of build.js
WithConcurrencyLimit(n, limit) ==
    /\ pool.variant = "none"
    /\ pool' = ThenResults(StartWorkers(NewPool("plain", n, limit, 0), 1))
    /\ UNCHANGED <<env, gatewayVars, signupVars, alloc, sitemap, report, proc, db>>

\* the promise of fn settles for worker w, which goes on
FnSettles(w, outcome) ==
    /\ pool.variant = "plain"
    /\ w \in DOMAIN pool.workers
    /\ pool.workers[w].pc = "fn"
    /\ pool' = ThenResults(runWorker(Settled(pool, w, outcome), w))
    /\ UNCHANGED <<env, gatewayVars, signupVars, alloc, sitemap, report, proc, db>>

NextPool ==
    \/ \E n \in ItemCounts, limit \in Limits : WithConcurrencyLimit(n, limit)
    \/ \E w \in 1..MaxLimit, outcome \in FnOutcomes : FnSettles(w, outcome)

(* the version with a flushCallback *)

\* flushCallback(results.filter(Boolean)): the copy of results is handed over
Flush(p) ==
    [p EXCEPT !.delivered =
        [idx \in DOMAIN @ |->
            @[idx] + Cardinality({k \in 1..Len(p.results) : p.results[k] = idx})]]

\* runWorker from the head of its while loop to the next await; memHigh says
\* whether process.memoryUsage() is above maxMemoryUsage
runWorkerFlush(p, w, memHigh) ==
    IF p.i < p.n
    THEN IF (memHigh \/ p.i - p.lastFlushIndex >= p.flushInterval)
            /\ Len(p.results) > 0
         THEN [Flush(p) EXCEPT !.workers[w] = [pc |-> "flush", idx |-> 0]]
         ELSE CallFn([p EXCEPT !.activeWorkers = @ + 1], w)
    ELSE [p EXCEPT !.workers[w] = [pc |-> "done", idx |-> 0]]

RECURSIVE StartWorkersFlush(_, _)
\* the workers are started one after the other; results is still empty
StartWorkersFlush(p, w) ==
    IF w > Len(p.workers) THEN p
    ELSE StartWorkersFlush(runWorkerFlush(p, w, FALSE), w + 1)

\* Promise.all(workers).then(...): the final flush, and the empty array
ThenFlush(p) ==
    IF ~AllDone(p) THEN p
    ELSE IF Len(p.results) > 0 THEN [Flush(p) EXCEPT !.then = "flush"]
    ELSE [p EXCEPT !.then = "resolved", !.returned = {<<>>}]

\* withConcurrencyLimit(items, limit, fn, flushCallback, options)
WithConcurrencyLimitFlush(n, limit, flushInterval) ==
    /\ pool.variant = "none"
    /\ pool' = ThenFlush(StartWorkersFlush(NewPool("flush", n, limit, flushInterval), 1))
    /\ UNCHANGED <<env, gatewayVars, signupVars, alloc, sitemap, report, proc, db>>

\* the promise of fn settles for worker w, which goes on.  A call with an
\* index past the end has items[idx] undefined, and fn, which destructures
\* its argument, rejects.
FnSettlesFlush(w, outcome, memHigh) ==
    /\ pool.variant = "flush"
    /\ w \in DOMAIN pool.workers
    /\ pool.workers[w].pc = "fn"
    /\ pool.workers[w].idx >= pool.n => outcome = "rejects"
    /\ pool' = ThenFlush(runWorkerFlush(
                   [Settled(pool, w, outcome) EXCEPT !.activeWorkers = @ - 1],
                   w, memHigh))
    /\ UNCHANGED <<env, gatewayVars, signupVars, alloc, sitemap, report, proc, db>>

\* the flushCallback awaited by worker w settles: results is cleared and the
\* next item is taken, without a look at items.length
FlushSettles(w) ==
    /\ pool.variant = "flush"
    /\ w \in DOMAIN pool.workers
    /\ pool.workers[w].pc = "flush"
    /\ pool' = CallFn([pool EXCEPT !.results = <<>>,
                                   !.lastFlushIndex = pool.i,
                                   !.activeWorkers = @ + 1], w)
    /\ UNCHANGED <<env, gatewayVars, signupVars, alloc, sitemap, report, proc, db>>

\* the final flushCallback settles: return flushCallback ? [] : results
FinalFlushSettles ==
    /\ pool.variant = "flush"
    /\ pool.then = "flush"
    /\ pool' = [pool EXCEPT !.then = "resolved", !.returned = {<<>>}]
    /\ UNCHANGED <<env, gatewayVars, signupVars, alloc, sitemap, report, proc, db>>

NextFlushPool ==
    \/ \E n \in ItemCounts, limit \in Limits, flushInterval \in FlushIntervals :
          WithConcurrencyLimitFlush(n, limit, flushInterval)
    \/ \E w \in 1..MaxLimit, outcome \in FnOutcomes, memHigh \in BOOLEAN :
          FnSettlesFlush(w, outcome, memHigh)
    \/ \E w \in 1..MaxLimit : FlushSettles(w)
    \/ FinalFlushSettles

(***************************************************************************)
(* Shutdown (server.js): the signal handlers, the HTTP server's close and  *)
(* the close of the bare server.                                           *)
(*                                                                         *)
(* server.close(callback) stops the listening, registers the callback for  *)
(* the server's next 'close' event, and has the event emitted once no      *)
(* connection is left; a call on a server that no longer listens does the  *)
(* same (its callback gets an error argument, which shutdown ignores).     *)
(* The bare server is a library: its close calls the callback at a time of *)
(* its choosing, if at all.                                                *)
(***************************************************************************)

MaxSignals == 3

MaxConnections == 2

Signals == {"SIGINT", "SIGTERM"}

Running ==
    [http |-> "listening", connections |-> 0, closeCallbacks |-> 0,
     emitScheduled |-> FALSE, bare |-> "open", bareCallbacks |-> 0,
     exited |-> FALSE, signals |-> <<>>, events |-> <<>>]

\* _emitCloseIfDrained of the HTTP server
EmitCloseIfDrained(p) ==
    IF p.http # "listening" /\ p.connections = 0
    THEN [p EXCEPT !.emitScheduled = TRUE]
    ELSE p

\* bare.close(callback)
BareClose(p) ==
    [p EXCEPT !.bare = IF @ = "open" THEN "closing" ELSE @,
              !.bareCallbacks = @ + 1,
              !.events = Append(@, "bare.close")]

\* server.close(callback)
ServerClose(p) ==
    EmitCloseIfDrained(
        [p EXCEPT !.http = IF @ = "listening" THEN "closing" ELSE @,
                  !.closeCallbacks = @ + 1])

\* shutdown closing the two servers side by side
shutdownBoth(p, signal) ==
    BareClose(ServerClose([p EXCEPT !.signals = Append(@, signal)]))

\* shutdown(signal) up to its return
shutdown(p, signal) == ServerClose([p EXCEPT !.signals = Append(@, signal)])

RECURSIVE CloseCallbacks(_, _)
\* the k callbacks registered by shutdown run, one after the other
CloseCallbacks(p, k) ==
    IF k = 0 THEN p
    ELSE CloseCallbacks(
             BareClose([p EXCEPT !.events = Append(@, "HTTP server closed")]),
             k - 1)

\* process.on('SIGINT' / 'SIGTERM', ...)
Signal(signal) ==
    /\ ~proc.exited
    /\ Len(proc.signals) < MaxSignals
    /\ proc' = shutdown(proc, signal)
    /\ UNCHANGED <<env, gatewayVars, signupVars, alloc, sitemap, report, pool, db>>

\* a client connects to the listening server
ConnectionOpens ==
    /\ ~proc.exited
    /\ proc.http = "listening"
    /\ proc.connections < MaxConnections
    /\ proc' = [proc EXCEPT !.connections = @ + 1]
    /\ UNCHANGED <<env, gatewayVars, signupVars, alloc, sitemap, report, pool, db>>

\* a connection ends
ConnectionEnds ==
    /\ ~proc.exited
    /\ proc.connections > 0
    /\ proc' = EmitCloseIfDrained([proc EXCEPT !.connections = @ - 1])
    /\ UNCHANGED <<env, gatewayVars, signupVars, alloc, sitemap, report, pool, db>>

\* the HTTP server emits 'close': the callbacks of shutdown run
EmitClose ==
    /\ ~proc.exited
    /\ proc.emitScheduled
    /\ proc' = CloseCallbacks(
                   [proc EXCEPT !.http = "closed", !.emitScheduled = FALSE,
                                !.closeCallbacks = 0],
                   proc.closeCallbacks)
    /\ UNCHANGED <<env, gatewayVars, signupVars, alloc, sitemap, report, pool, db>>

\* the bare server calls a callback of its close: process.exit(0)
BareClosed ==
    /\ ~proc.exited
    /\ proc.bareCallbacks > 0
    /\ proc' = [proc EXCEPT
                  !.bare = "closed", !.bareCallbacks = @ - 1, !.exited = TRUE,
                  !.events = @ \o <<"Bare server closed", "process.exit">>]
    /\ UNCHANGED <<env, gatewayVars, signupVars, alloc, sitemap, report, pool, db>>

NextShutdown ==
    \/ \E signal \in Signals : Signal(signal)
    \/ ConnectionOpens
    \/ ConnectionEnds
    \/ EmitClose
    \/ BareClosed

(***************************************************************************)
(* adminUserActionHandler (server/api/admin-user-action.js) on the users   *)
(* table: id -> row.  A deleted row is no longer in the table.             *)
(***************************************************************************)

\* the table the handler starts from: the owner, an admin, a user and the
\* first user to have signed up (is_admin 1 without the owner's address)
InitialUsers ==
    ("u1" :> [email |-> "owner@x.io", is_admin |-> 1, email_verified |-> 1, banned |-> 0])
    @@ ("u2" :> [email |-> "admin@x.io", is_admin |-> 3, email_verified |-> 1, banned |-> 0])
    @@ ("u3" :> [email |-> "first@x.io", is_admin |-> 1, email_verified |-> 1, banned |-> 0])

\* req.session.user: none, a row of the table, or a row no longer there
SessionUsers == {{}, {"u1"}, {"u2"}, {"u3"}, {"u9"}}

\* req.body.userId
BodyUserIds == {{}, {""}, {"u1"}, {"u2"}, {"u3"}, {"u9"}}

AdminActions == {"suspend", "staff", "delete", "ban", "promote_admin", "demote_admin"}

\* req.body.action
BodyActions == {{}, {"reset"}} \cup {{a} : a \in AdminActions}

AdminEnvironments == {EmptyObject, "ADMIN_EMAIL" :> "owner@x.io"}

NoAdminCall == [caller |-> {}, status |-> 0]

EmptyDb == [users |-> EmptyObject, last |-> NoAdminCall]

\* the actions a staff member may take as well: the role actions without staff
RoleActionsNoStaff == {"promote_admin", "demote_admin"}

\* ["promote_admin", "demote_admin", "staff"]
RoleActions == {"promote_admin", "demote_admin", "staff"}

\* db.prepare('UPDATE users SET ... WHERE id = ?').run(userId)
Update(table, id, row) == [table EXCEPT ![id] = row]

\* the handler on the table: the status of the response and the table after
adminUserAction(table, session, userId, action) ==
    LET Answer403 == [status |-> 403, users |-> table]
        Answer400 == [status |-> 400, users |-> table]
    IN
    IF session = {} THEN [status |-> 401, users |-> table]
    ELSE
    LET admin == IF The(session) \in DOMAIN table THEN {table[The(session)]} ELSE {}
        ownerEmail == EnvGet("ADMIN_EMAIL")
        isOwner == admin # {} /\ {The(admin).email} = ownerEmail
    IN
    IF admin = {} \/ (The(admin).is_admin < 1 /\ The(admin).is_admin # 2)
    THEN Answer403
    ELSE IF userId = {} \/ userId = {""} \/ action \notin {{a} : a \in AdminActions}
    THEN Answer400
    ELSE IF userId = session THEN Answer400
    ELSE IF The(userId) \notin DOMAIN table THEN [status |-> 404, users |-> table]
    ELSE
    LET id == The(userId)
        user == table[id]
        act == The(action)
    IN
    IF act \in RoleActions /\ ~isOwner THEN Answer403
    ELSE IF {user.email} = ownerEmail THEN Answer403
    ELSE IF act = "staff"
    THEN [status |-> 200, users |-> Update(table, id, [user EXCEPT !.is_admin = 2])]
    ELSE IF act = "promote_admin"
    THEN [status |-> 200, users |-> Update(table, id, [user EXCEPT !.is_admin = 3])]
    ELSE IF act = "demote_admin"
    THEN [status |-> 200, users |-> Update(table, id, [user EXCEPT !.is_admin = 0])]
    ELSE IF The(admin).is_admin \in {2, 3} \/ isOwner
    THEN IF act = "suspend"
         THEN [status |-> 200,
               users |-> Update(table, id, [user EXCEPT !.email_verified = 0])]
         ELSE IF act = "ban"
         THEN [status |-> 200,
               users |-> Update(table, id,
                                [user EXCEPT !.banned = 1, !.email_verified = 0])]
         ELSE IF act = "delete"
         THEN [status |-> 200, users |-> MapDelete(table, id)]
         ELSE Answer400
    ELSE Answer400

\* one request to the handler
AdminUserAction(session, userId, action) ==
    /\ LET r == adminUserAction(db.users, session, userId, action)
       IN  db' = [users |-> r.users, last |-> [caller |-> session, status |-> r.status]]
    /\ UNCHANGED <<env, gatewayVars, signupVars, alloc, sitemap, report, pool, proc>>

InitAdmin ==
    /\ env \in AdminEnvironments
    /\ conn = Idle
    /\ prev = NoPrev
    /\ satisfied = {}
    /\ SignupIdle
    /\ alloc = NoAddress
    /\ sitemap = NoSitemap
    /\ report = NoReport
    /\ pool = NoPool
    /\ proc = Running
    /\ db = [users |-> InitialUsers, last |-> NoAdminCall]

NextAdmin ==
    \E session \in SessionUsers, userId \in BodyUserIds, action \in BodyActions :
        AdminUserAction(session, userId, action)

SpecAdmin == InitAdmin /\ [][NextAdmin]_vars

\* nothing has been called yet
ToolsIdle ==
    /\ sitemap = NoSitemap
    /\ report = NoReport
    /\ pool = NoPool
    /\ proc = Running
    /\ db = EmptyDb

InitSignup ==
    /\ env \in SignupEnvironments
    /\ conn = Idle
    /\ prev = NoPrev
    /\ satisfied = {}
    /\ SignupIdle
    /\ alloc = NoAddress
    /\ ToolsIdle

NextSignup ==
    \/ \E req \in SignupRequests : SignupStart(req)
    \/ \E id \in DOMAIN pending : SignupFinish(id)
    \/ \E id \in DOMAIN pending : SignupHashFails(id)
    \/ \E tm \in timers : TimerFires(tm)
    \/ \E t \in ClockPoints : Tick(t)

SpecSignup == InitSignup /\ [][NextSignup]_vars

Init ==
    /\ env \in Environments
    /\ conn = Idle
    /\ prev = NoPrev
    /\ satisfied = {}
    /\ SignupIdle
    /\ alloc = NoAddress
    /\ ToolsIdle

\* a connection arrives only while none is being handled: the handlers are
\* synchronous and run one at a time on the event loop
Next ==
    \/ conn = Idle /\ \E req \in Requests : HttpRequest(req)
    \/ conn = Idle /\ \E req \in Requests : UpgradeRequest(req)
    \/ Release

Spec == Init /\ [][Next]_vars

\* the dispatcher with clients that retry after a challenge
NextRetry ==
    \/ conn = Idle /\ \E req \in Requests : HttpRequest(req)
    \/ conn = Idle /\ \E req \in Requests : UpgradeRequest(req)
    \/ Retry
    \/ Release

SpecRetry == Init /\ [][NextRetry]_vars

\* requests to the application: the sitemaps, a path nothing serves, a file
AppUrls ==
    {"/sitemap.json", "/sitemap.xml", "/sitemap.txt", "/non-existent-route-12345",
     "/sitemap.xsl", "/api/profile"}

AppRequests ==
    {[url |-> u,
      headers |-> OptField("user-agent", ua) @@ OptField("accept", ac)
                  @@ OptField("cookie", ck) @@ OptField("x-bot-token", bt)] :
        u \in AppUrls, ua \in UserAgents, ac \in Accepts,
        ck \in CookieHeaders, bt \in BotTokenHeaders}

\* the dispatcher driven with those requests
NextApp ==
    \/ conn = Idle /\ \E req \in AppRequests : HttpRequest(req)
    \/ Release

SpecApp == Init /\ [][NextApp]_vars

\* requests with empty, malformed and oddly written headers
EdgeCookieHeaders ==
    {{}, {""}, {"verified"}, {"=ok"}, {"verified="}, {"verified=ok=1"},
     {"verified=ok; verified=no"}, {"verified=no; verified=ok"}, {";;"},
     {" verified = ok "}, {"verified=ok;"}}

EdgeUserAgents == {{}, {""}, {"Mozilla/5.0"}, {"MOZILLA"}}

EdgeAccepts == {{}, {""}, {"text/html"}, {"TEXT/HTML"}}

EdgeBotTokenHeaders == {{}, {""}, {"s3cret"}}

EdgeRequests ==
    {[url |-> u,
      headers |-> OptField("user-agent", ua) @@ OptField("accept", ac)
                  @@ OptField("cookie", ck) @@ OptField("x-bot-token", bt)] :
        u \in {"/bare/", "/wisp/"}, ua \in EdgeUserAgents, ac \in EdgeAccepts,
        ck \in EdgeCookieHeaders, bt \in EdgeBotTokenHeaders}

\* the dispatcher driven with those requests
NextEdge ==
    \/ conn = Idle /\ \E req \in EdgeRequests : HttpRequest(req)
    \/ conn = Idle /\ \E req \in EdgeRequests : UpgradeRequest(req)
    \/ Release

SpecEdge == Init /\ [][NextEdge]_vars

\* the two allocators, called again and again
NextAllocator ==
    \/ \E i \in AllocatorDraws : GetRandomIPv6(i)
    \/ \E draws \in DrawSequences : GenerateRandomIP(draws)

SpecAllocator == Init /\ [][NextAllocator]_vars

\* one call of computeReport: its state is local to the call
SpecReport == Init /\ [][NextReport]_vars

\* the application with browsers that follow the challenge page: a
\* challenged client reloads, and the reload is not put off forever
NextAppRetry ==
    \/ conn = Idle /\ \E req \in AppRequests : HttpRequest(req)
    \/ RetryApp
    \/ Leave

SpecAppRetry == Init /\ [][NextAppRetry]_vars /\ WF_vars(RetryApp)

\* one call of withConcurrencyLimit of build.js
SpecPool == Init /\ [][NextPool]_vars

\* one call of withConcurrencyLimit with a flushCallback
SpecFlushPool == Init /\ [][NextFlushPool]_vars

\* the process from listening to its exit
SpecShutdown == Init /\ [][NextShutdown]_vars

\* the sitemap helpers, called again and again
SpecSitemap == Init /\ [][NextSitemap]_vars

(***************************************************************************)
(* Vocabulary of the properties                                            *)
(***************************************************************************)

\* the connection was handed to the downstream handler named
HandedTo(c, handler) == \E k \in 1..Len(c.events) : c.events[k] = handler

Handlers == {"bare.routeRequest", "bare.routeUpgrade", "wisp.routeRequest"}

\* the trimmed name=value pairs of a Cookie header
CookiePairs(h) ==
    IF h = {} THEN {}
    ELSE LET segs == Split(The(h), ";")
         IN  {Trim(segs[k]) : k \in 1..Len(segs)}

\* the header holds the cookie verified=ok, and no other cookie of that name
HoldsVerifiedOk(h) ==
    /\ "verified=ok" \in CookiePairs(h)
    /\ \A pair \in CookiePairs(h) :
           Split(pair, "=")[1] = "verified" => pair = "verified=ok"

\* the Cookie headers of the inputs that hold verified=ok, and those that
\* hold no pair verified=ok at all
HeadersWithVerifiedOk == {h \in CookieHeaders : HoldsVerifiedOk(h)}

HeadersWithoutVerifiedOk == {h \in CookieHeaders : "verified=ok" \notin CookiePairs(h)}

\* the request carries the cookie verified=ok
CarriesVerifiedOk(req) == Hdr(req, "cookie") \in HeadersWithVerifiedOk

\* the request carries no cookie verified=ok
LacksVerifiedOk(req) == Hdr(req, "cookie") \in HeadersWithoutVerifiedOk

(***************************************************************************)
(* C1: a request to a ProxyNamespace path whose User-Agent matches none of *)
(* the browser patterns is rejected, whatever its cookie, bot-token and    *)
(* Accept header: 403 and not forwarded on the HTTP path, socket destroyed *)
(* and not forwarded on the upgrade path.                                  *)
(***************************************************************************)
C1_NonBrowserRejected ==
    (conn.ns = "ProxyNamespace" /\ ~isBrowser(conn.req)) =>
        /\ \A h \in Handlers : ~HandedTo(conn, h)
        /\ conn.kind = "http" => conn.status = 403
        /\ conn.kind = "upgrade" => conn.socket = "destroyed"

(***************************************************************************)
(* C2: a ProxyNamespace request, HTTP or upgrade, that carries the cookie  *)
(* verified=ok and a browser-like User-Agent is allowed for every Accept   *)
(* header: it is tagged with an allocated address and handed to the bare   *)
(* handler of its transport, and nothing is answered or closed.            *)
(***************************************************************************)
C2_VerifiedBrowserForwarded ==
    (conn.ns = "ProxyNamespace" /\ CarriesVerifiedOk(conn.req) /\ isBrowser(conn.req)) =>
        /\ conn.events = <<"tag", IF conn.kind = "http" THEN "bare.routeRequest"
                                                         ELSE "bare.routeUpgrade">>
        /\ conn.ipv6 # {}
        /\ conn.status = 0
        /\ conn.socket = "open"

\* C2's case: an HTML-accepting HTTP request with the cookie among others
C2_Witness ==
    /\ conn.kind = "http"
    /\ conn.ns = "ProxyNamespace"
    /\ Hdr(conn.req, "cookie") = {"theme=dark; verified=ok"}
    /\ isBrowser(conn.req)
    /\ acceptsHtml(conn.req)
    /\ Hdr(conn.req, "x-bot-token") = {"guess"}
    /\ HandedTo(conn, "bare.routeRequest")

(***************************************************************************)
(* C3: an HTTP request to a ProxyNamespace path with a browser-like        *)
(* User-Agent, no cookie verified=ok and text/html in Accept is answered   *)
(* with the challenge (200 text/html, the Set-Cookie header, the reload    *)
(* script) and is not forwarded.  Stated for the requests that present no  *)
(* bot-token header either, the case most favourable to the claim.         *)
(***************************************************************************)
C3_UnverifiedBrowserChallenged ==
    (/\ conn.kind = "http"
     /\ conn.ns = "ProxyNamespace"
     /\ isBrowser(conn.req)
     /\ LacksVerifiedOk(conn.req)
     /\ Hdr(conn.req, "x-bot-token") = {}
     /\ acceptsHtml(conn.req)) =>
        /\ conn.status = 200
        /\ conn.resHeaders = ("Content-Type" :> "text/html")
                             @@ ("Set-Cookie" :> ChallengeSetCookie)
        /\ conn.body = ChallengePage
        /\ \A h \in Handlers : ~HandedTo(conn, h)

(***************************************************************************)
(* C4: a request that carries neither a cookie nor an x-bot-token header   *)
(* is never prior-verified, whatever BOT_TOKEN is, unset included (the     *)
(* flag computed by isVerified on the dispatcher path and by               *)
(* verifyMiddleware on the application path).                              *)
(***************************************************************************)
C4_NoCredentialNotVerified ==
    (/\ conn.verified # {}
     /\ Hdr(conn.req, "cookie") = {}
     /\ Hdr(conn.req, "x-bot-token") = {}) =>
        conn.verified = {FALSE}

\* the verification cookie as the path of the connection c reads it
CookieSaysOk(c) ==
    IF c.ns = "AppNamespace"
    THEN Prop(ReqCookies(c.req), "verified") = {"ok"}
    ELSE Prop(CookiesOf(c.req), "verified") = {"ok"}

LastAge == TokenAge(lastCall.token, lastCall.now)

(***************************************************************************)
(* C6: while the fingerprint of a token string is in usedTokens, no call   *)
(* of validateBotToken with that string returns true; a call that returns  *)
(* true at time T records the fingerprint with T; and a fingerprint leaves *)
(* usedTokens only once the clock has reached T + 900000 (eviction is by   *)
(* the timer, never by capacity or a bulk purge).                          *)
(***************************************************************************)
C6_SingleUseUntilEvicted ==
    [][/\ \A t \in TokenStrings :
            /\ Sha256Hex(t) \in DOMAIN usedTokens => accepted'[t] = accepted[t]
            /\ accepted'[t] > accepted[t] =>
                 /\ Sha256Hex(t) \in DOMAIN usedTokens'
                 /\ usedTokens'[Sha256Hex(t)] = clock
       /\ \A h \in DOMAIN usedTokens :
            IF h \in DOMAIN usedTokens'
            THEN usedTokens'[h] = usedTokens[h]
            ELSE /\ clock >= usedTokens[h] + TokenRetention
                 /\ DOMAIN usedTokens' = DOMAIN usedTokens \ {h}]_vars

\* C6's case: a token of acceptable age is presented again while its
\* fingerprint is registered, and is refused
C6_Witness ==
    /\ lastCall.known
    /\ ~lastCall.ok
    /\ LastAge # {}
    /\ \A age \in LastAge : MinTokenAge <= age /\ age <= MaxTokenAge
    /\ accepted[The(lastCall.token)] = 1

(***************************************************************************)
(* C7: a well-formed token whose fingerprint is not registered is accepted *)
(* exactly when 2000 <= age <= 300000 with age = now - timestamp, both     *)
(* bounds included; in particular a negative age is rejected.              *)
(***************************************************************************)
C7_FreshnessWindow ==
    \A age \in LastAge :
        ~lastCall.known =>
            /\ lastCall.ok <=> (MinTokenAge <= age /\ age <= MaxTokenAge)
            /\ age < 0 => ~lastCall.ok

\* C7's case: an unregistered token is accepted at the upper bound of the age
C7_Witness ==
    /\ LastAge = {MaxTokenAge}
    /\ ~lastCall.known
    /\ lastCall.ok

(***************************************************************************)
(* C8: while a signup request is suspended at its await with its token     *)
(* accepted, no other request presenting the same token has it accepted,   *)
(* so no two requests in flight hold the same token.                       *)
(***************************************************************************)
C8_OneAcceptedAmongConcurrent ==
    [][/\ \A id \in DOMAIN pending :
            accepted'[pending[id].token] = accepted[pending[id].token]
       /\ \A i, j \in DOMAIN pending' :
            pending'[i].token = pending'[j].token => i = j]_vars

\* C8's case: a second request presents the token of a request that is
\* still suspended at its await
C8_Witness ==
    /\ started = 2
    /\ \E id \in DOMAIN pending :
         /\ id = 1
         /\ lastCall.token = {pending[id].token}
         /\ lastCall.now = clock
    /\ ~lastCall.ok

(***************************************************************************)
(* C9: an upgrade request whose path starts with /wisp/ is always tagged   *)
(* and handed to the WISP handler, whatever its cookie, bot-token and      *)
(* User-Agent; its socket is never destroyed.                              *)
(***************************************************************************)
C9_WispBypass ==
    (conn.kind = "upgrade" /\ StartsWith(conn.req.url, "/wisp/")) =>
        /\ conn.events = <<"tag", "wisp.routeRequest">>
        /\ conn.ipv6 # {}
        /\ conn.socket = "open"

\* C9's case: no cookie, no token, a non-browser User-Agent, not verified
C9_Witness ==
    /\ conn.kind = "upgrade"
    /\ StartsWith(conn.req.url, "/wisp/")
    /\ Hdr(conn.req, "cookie") = {}
    /\ Hdr(conn.req, "x-bot-token") = {}
    /\ Hdr(conn.req, "user-agent") = {"curl/8.0"}
    /\ conn.verified = {FALSE}
    /\ HandedTo(conn, "wisp.routeRequest")

\* the namespace of a path and a transport kind
NamespaceOf(url, kind) ==
    IF StartsWith(url, "/bare/") THEN "ProxyNamespace"
    ELSE IF kind = "upgrade" /\ StartsWith(url, "/wisp/") THEN "WispNamespace"
    ELSE "AppNamespace"

(***************************************************************************)
(* C10: classification depends on the path and the transport kind only:   *)
(* two connections with the same path and kind are put in the same         *)
(* namespace whatever their headers and whatever verification decided, and *)
(* the namespace is ProxyNamespace under /bare/, WispNamespace for an      *)
(* upgrade under /wisp/, AppNamespace for everything else.                 *)
(***************************************************************************)
C10_ClassifiedByPathAndKind ==
    conn # Idle =>
        /\ (prev.url = conn.req.url /\ prev.kind = conn.kind) => prev.ns = conn.ns
        /\ conn.ns = NamespaceOf(conn.req.url, conn.kind)

\* C10's case: same path and kind, one forwarded and the other rejected
C10_Witness ==
    /\ prev.url = conn.req.url
    /\ prev.kind = conn.kind
    /\ prev.kind = "upgrade"
    /\ HandedTo(prev, "bare.routeUpgrade")
    /\ conn.socket = "destroyed"
    /\ conn.ns = "ProxyNamespace"

\* the events that end the dispatcher's handling of a connection
Outcomes ==
    Handlers \cup {"app.handle", "403", "challenge", "socket.destroy", "socket.end"}

IsOutcome(e) == e \in Outcomes

\* position of the first hand-over in the events of c, or 0 when there is none
RECURSIVE FirstHandOver(_, _)
FirstHandOver(events, k) ==
    IF k > Len(events) THEN 0
    ELSE IF events[k] \in Handlers \cup {"app.handle"} THEN k
    ELSE FirstHandOver(events, k + 1)

\* what the dispatcher itself did with c: the events up to the hand-over
DispatcherEvents(c) ==
    IF FirstHandOver(c.events, 1) = 0 THEN c.events
    ELSE SubSeq(c.events, 1, FirstHandOver(c.events, 1))

\* the outcomes among the events of the dispatcher
DispatcherOutcomes(c) == SelectSeq(DispatcherEvents(c), IsOutcome)

(***************************************************************************)
(* C11: every connection the dispatcher has handled has exactly one        *)
(* outcome: an HTTP request one of app.handle, bare.routeRequest, 403,     *)
(* challenge page; an upgrade one of bare.routeUpgrade, wisp.routeRequest, *)
(* socket closed.  It is handed to at most one handler, nothing is done    *)
(* to it after a proxy handler has it, and a connection the dispatcher     *)
(* answered or closed is not forwarded.                                    *)
(***************************************************************************)
C11_ExactlyOneOutcome ==
    conn # Idle =>
        /\ Len(DispatcherOutcomes(conn)) = 1
        /\ conn.kind = "http" =>
             DispatcherOutcomes(conn)[1] \in
                 {"app.handle", "bare.routeRequest", "403", "challenge"}
        /\ conn.kind = "upgrade" =>
             DispatcherOutcomes(conn)[1] \in
                 {"bare.routeUpgrade", "wisp.routeRequest", "socket.destroy", "socket.end"}
        /\ Len(SelectSeq(conn.events, LAMBDA e : e \in Handlers \cup {"app.handle"})) <= 1
        /\ (\E h \in Handlers : HandedTo(conn, h)) =>
             /\ conn.events[Len(conn.events)] \in Handlers
             /\ conn.status = 0
             /\ conn.socket = "open"

\* C11's case: an upgrade the dispatcher closed, and so did not forward
C11_Witness ==
    /\ conn.kind = "upgrade"
    /\ conn.ns = "ProxyNamespace"
    /\ conn.events = <<"socket.destroy">>
    /\ conn.socket = "destroyed"

\* spec 4.2 step 2: the verification cookie is present with the sentinel
\* value, or a bot token is presented and is the valid one
PolicyPriorVerified(req) ==
    \/ CarriesVerifiedOk(req)
    \/ /\ Hdr(req, "x-bot-token") # {}
       /\ Hdr(req, "x-bot-token") = EnvGet("BOT_TOKEN")

\* spec 4.2 steps 3 to 6 on the headers of a request
PolicyDecision(req) ==
    IF PolicyPriorVerified(req) /\ isBrowser(req) THEN "Allow"
    ELSE IF ~isBrowser(req) THEN "Reject"
    ELSE IF ~acceptsHtml(req) THEN "Allow"
    ELSE "ChallengeAndStop"

(***************************************************************************)
(* C12: an upgrade request to a ProxyNamespace path is forwarded to        *)
(* bare.routeUpgrade exactly when the Verification Policy (spec 4.2, steps *)
(* 1 to 6 on its cookie, bot-token, User-Agent and Accept headers) yields  *)
(* Allow; otherwise its socket is destroyed and no response is written.    *)
(***************************************************************************)
C12_UpgradeFollowsPolicy ==
    (conn.kind = "upgrade" /\ conn.ns = "ProxyNamespace") =>
        /\ HandedTo(conn, "bare.routeUpgrade") <=> PolicyDecision(conn.req) = "Allow"
        /\ PolicyDecision(conn.req) # "Allow" =>
             /\ conn.socket = "destroyed"
             /\ conn.status = 0
             /\ conn.body = ""

\* the request is not prior-verified on the path of the connection c: no
\* cookie verified=ok as that path reads it, and no bot token that is BOT_TOKEN
Unverified(c) ==
    /\ ~CookieSaysOk(c)
    /\ ~(Hdr(c.req, "x-bot-token") # {} /\ Hdr(c.req, "x-bot-token") = EnvGet("BOT_TOKEN"))

(***************************************************************************)
(* C13: an unverified HTTP request with a browser-like User-Agent whose    *)
(* Accept header is absent or lacks text/html is let through without a     *)
(* challenge: under ProxyNamespace it is tagged and forwarded to           *)
(* bare.routeRequest, under AppNamespace verifyMiddleware calls next();    *)
(* in both cases no response is written by the verification.               *)
(***************************************************************************)
C13_NoHtmlBrowserAllowed ==
    (/\ conn.kind = "http"
     /\ Unverified(conn)
     /\ isBrowser(conn.req)
     /\ ~acceptsHtml(conn.req)) =>
        /\ ~HandedTo(conn, "challenge")
        /\ ~HandedTo(conn, "403")
        /\ conn.ns = "ProxyNamespace" =>
             /\ conn.events = <<"tag", "bare.routeRequest">>
             /\ conn.status = 0
        /\ conn.ns = "AppNamespace" =>
             /\ SubSeq(conn.events, 1, 2) = <<"app.handle", "next">>
             /\ conn.session = {}

\* C13's case: the middleware lets an unverified browser without Accept pass
C13_Witness ==
    /\ conn.kind = "http"
    /\ conn.ns = "AppNamespace"
    /\ Unverified(conn)
    /\ isBrowser(conn.req)
    /\ Hdr(conn.req, "accept") = {}
    /\ HandedTo(conn, "next")

\* the addresses the allocator returns on the draws of the inputs
AllocatedAddresses == {getRandomIPv6(i) : i \in RandomDraws}

(***************************************************************************)
(* C14: a connection passed to bare.routeRequest, bare.routeUpgrade or     *)
(* wisp.routeRequest has req.ipv6 set to an address of the allocator, and  *)
(* the tagging is the step right before the handler is invoked; a          *)
(* connection handed to the application server, answered 403, answered     *)
(* with the challenge page, or whose socket is closed is never tagged.     *)
(***************************************************************************)
C14_TaggedBeforeHandOverOnly ==
    conn # Idle =>
        IF \E h \in Handlers : HandedTo(conn, h)
        THEN /\ conn.ipv6 # {}
             /\ conn.ipv6 \subseteq AllocatedAddresses
             /\ \A k \in 1..Len(conn.events) :
                    conn.events[k] \in Handlers =>
                        k > 1 /\ conn.events[k - 1] = "tag"
        ELSE /\ conn.ipv6 = {}
             /\ ~HandedTo(conn, "tag")

\* C14's case: a forwarded upgrade is tagged, the one before it was refused
C14_Witness ==
    /\ conn.events = <<"tag", "bare.routeUpgrade">>
    /\ conn.ipv6 = {getRandomIPv6(5000)}
    /\ prev.events = <<"socket.destroy">>

(***************************************************************************)
(* C15: when a ProxyNamespace HTTP request has received the challenge page *)
(* and the same client retries it (same path, User-Agent and Accept, now   *)
(* with the cookie of the challenge response), the retried request is not  *)
(* challenged again: it is tagged and forwarded to bare.routeRequest.      *)
(***************************************************************************)
C15_RetryAfterChallengeForwarded ==
    [][(/\ conn.kind = "http"
        /\ conn.ns = "ProxyNamespace"
        /\ conn.events = <<"challenge">>
        /\ conn' # Idle) =>
            /\ conn'.req = RetryOf(conn)
            /\ conn'.events = <<"tag", "bare.routeRequest">>
            /\ conn'.status = 0
            /\ conn'.verified = {TRUE}]_vars

\* C15's case: the retry of a client that already held a cookie without a
\* name has been forwarded
C15_Witness ==
    /\ prev.events = <<"challenge">>
    /\ prev.url = conn.req.url
    /\ Hdr(conn.req, "cookie") = {"verified; verified=ok"}
    /\ HandedTo(conn, "bare.routeRequest")

\* the text of an address after the prefix and the colons that follow it
AfterPrefix(address) ==
    LET rest == SubSeq(address, Len(RotatorPrefix) + 1, Len(address))
    IN  IF StartsWith(rest, "::") THEN SubSeq(rest, 3, Len(rest))
        ELSE SubSeq(rest, 2, Len(rest))

\* the 16-bit segment written immediately after the prefix
SegmentAfterPrefix(address) == ParseHex(Split(AfterPrefix(address), ":")[1])

(***************************************************************************)
(* C16: every address returned by getRandomIPv6 and by generateRandomIP    *)
(* has the 16-bit segment immediately after the prefix 2607:5300:205:200   *)
(* outside the reserved range 0x0001 to 0x00c4.                            *)
(***************************************************************************)
C16_SegmentNotReserved ==
    alloc # NoAddress =>
        /\ StartsWith(alloc.address, RotatorPrefix)
        /\ ~(1 <= SegmentAfterPrefix(alloc.address)
             /\ SegmentAfterPrefix(alloc.address) <= 196)

\* a string of 1 to 4 hexadecimal digits
IsHexGroup(g) ==
    /\ Len(g) >= 1
    /\ Len(g) <= 4
    /\ \A k \in 1..Len(g) : \E d \in 0..15 : HexDigit(d) = SubSeq(g, k, k)

\* the positions at which "::" starts in s
DoubleColons(s) == {k \in 1..(Len(s) - 1) : SubSeq(s, k, k + 1) = "::"}

\* the groups of a part of an address with no "::" in it
GroupsOf(part) == IF part = "" THEN <<>> ELSE Split(part, ":")

\* s is an IPv6 literal in hexadecimal groups: eight groups with no "::",
\* or one "::" standing for at least one group with at most seven written
IsIPv6Literal(s) ==
    IF DoubleColons(s) = {}
    THEN /\ Len(Split(s, ":")) = 8
         /\ \A k \in 1..8 : IsHexGroup(Split(s, ":")[k])
    ELSE /\ Cardinality(DoubleColons(s)) = 1
         /\ LET at == CHOOSE k \in DoubleColons(s) : TRUE
                left == GroupsOf(SubSeq(s, 1, at - 1))
                right == GroupsOf(SubSeq(s, at + 2, Len(s)))
            IN  /\ \A k \in 1..Len(left) : IsHexGroup(left[k])
                /\ \A k \in 1..Len(right) : IsHexGroup(right[k])
                /\ Len(left) + Len(right) <= 7

(***************************************************************************)
(* C17: every value returned by getRandomIPv6 and by generateRandomIP      *)
(* starts with the prefix and is a syntactically valid IPv6 literal:       *)
(* groups of 1 to 4 hex digits, at most one "::", and the written groups   *)
(* plus the zero groups "::" stands for (at least one) are eight in all.   *)
(***************************************************************************)
C17_ValidIPv6Literal ==
    alloc # NoAddress =>
        /\ StartsWith(alloc.address, RotatorPrefix)
        /\ IsIPv6Literal(alloc.address)

\* the decision the outcome of a verified connection shows, if it shows one
DecisionsOf(c) ==
    {d \in {"Allow", "Reject", "ChallengeAndStop"} :
        \/ d = "Allow" /\ \E h \in Handlers : HandedTo(c, h)
        \/ d = "Reject" /\ (HandedTo(c, "403") \/ HandedTo(c, "socket.destroy"))
        \/ d = "ChallengeAndStop" /\ HandedTo(c, "challenge")}

\* the value of a cookie pair: what follows its first '='
CookieValue(pair) ==
    IF Includes(pair, "=") THEN Join(Tail(Split(pair, "=")), "=") ELSE pair

\* the Cookie header holds a cookie named verified whose value is ok
ParsesToVerifiedOk(h) ==
    \E pair \in CookiePairs(h) :
        CookieName(pair) = "verified" /\ CookieValue(pair) = "ok"

(***************************************************************************)
(* C18: whatever the cookie, user-agent, accept and x-bot-token headers    *)
(* are (absent, empty, segments without '=', duplicate names, several '='  *)
(* in a segment), the verification of a connection completes with exactly  *)
(* one of the decisions Allow, Reject, Challenge, and a Cookie header that *)
(* does not hold a cookie verified with the value ok adds nothing to the   *)
(* verification: the connection is then verified only by its bot token.    *)
(***************************************************************************)
C18_MalformedHeadersNotVerified ==
    (conn # Idle /\ conn.ns # "AppNamespace") =>
        /\ Cardinality(DecisionsOf(conn)) = 1
        /\ conn.verified \in {{TRUE}, {FALSE}, {}}
        /\ (conn.verified # {} /\ ~ParsesToVerifiedOk(Hdr(conn.req, "cookie"))) =>
               conn.verified = {Hdr(conn.req, "x-bot-token") = EnvGet("BOT_TOKEN")}

SitemapUrls == {"/sitemap.json", "/sitemap.xml", "/sitemap.txt"}

(***************************************************************************)
(* C19: a GET request with a browser-like User-Agent and no text/html in   *)
(* Accept to /sitemap.json, /sitemap.xml or /sitemap.txt passes the        *)
(* middleware chain and reaches its sitemap route, which answers 200; no   *)
(* middleware registered earlier answers it first.                         *)
(***************************************************************************)
C19_SitemapRouteReached ==
    (/\ conn.kind = "http"
     /\ conn.req.url \in SitemapUrls
     /\ isBrowser(conn.req)
     /\ ~acceptsHtml(conn.req)) =>
        /\ conn.events = <<"app.handle", "next", "route " \o conn.req.url>>
        /\ conn.status = 200

\* some route of the application matches the path
RouteMatches(url) ==
    \E k \in 1..Len(Layers) :
        /\ Layers[k].type = "route"
        /\ \/ ~Layers[k].isPrefix /\ url = Layers[k].path
           \/ Layers[k].isPrefix /\ StartsWith(url, Layers[k].path)
                                 /\ Len(url) > Len(Layers[k].path)

\* some static directory of the application holds a file for the path
StaticFileMatches(url) ==
    \E k \in 1..Len(Layers) :
        /\ Layers[k].type = "static"
        /\ Mounted(url, Layers[k].mount)
        /\ BelowMount(url, Layers[k].mount) \in Layers[k].files

(***************************************************************************)
(* C20: a request to an AppNamespace path that matches no route and no     *)
(* static file is answered with status 404, also when it sends no          *)
(* User-Agent header and no cookie.                                        *)
(***************************************************************************)
C20_UnmatchedPathIs404 ==
    (/\ conn.kind = "http"
     /\ conn.ns = "AppNamespace"
     /\ ~RouteMatches(conn.req.url)
     /\ ~StaticFileMatches(conn.req.url)) =>
        conn.status = 404


\* the calls of the sitemap helpers the state records
PriorityCalls == sitemap.priority

ChangefreqCalls == {c \in sitemap.changefreq : c.lastmod # {}}

ChangefreqCallsBefore == {c \in sitemap.before : c.lastmod # {}}

\* C21: computePriority(commitCount, maxCommits) is 0.5 when maxCommits is 0
\* and otherwise commitCount / maxCommits clamped into [0.1, 1.0]: for
\* non-negative integers the result lies in [0.1, 1.0], is 0.1 when
\* commitCount is 0 and maxCommits > 0, and is 1.0 when
\* commitCount >= maxCommits > 0.
C21_PriorityClamped ==
    \A c \in PriorityCalls :
        /\ RatLeq(<<1, 10>>, c.result) /\ RatLeq(c.result, <<1, 1>>)
        /\ c.maxCommits = 0 => RatEq(c.result, <<1, 2>>)
        /\ (c.maxCommits > 0 /\ 10 * c.commitCount <= c.maxCommits)
              => RatEq(c.result, <<1, 10>>)
        /\ (c.maxCommits > 0 /\ c.commitCount >= c.maxCommits)
              => RatEq(c.result, <<1, 1>>)
        /\ (c.maxCommits > 0 /\ 10 * c.commitCount >= c.maxCommits
                             /\ c.commitCount <= c.maxCommits)
              => RatEq(c.result, <<c.commitCount, c.maxCommits>>)
        /\ (c.commitCount = 0 /\ c.maxCommits > 0) => RatEq(c.result, <<1, 10>>)

\* a call the lower clamp decides: 0 < commitCount / maxCommits < 0.1
C21_Witness ==
    \E c \in PriorityCalls :
        /\ c.commitCount > 0 /\ 10 * c.commitCount < c.maxCommits
        /\ RatEq(c.result, <<1, 10>>)

\* the age of the file at a call, in milliseconds beyond whole days
AgeOf(c) == Elapsed(c.now, The(c.lastmod))

AgeLeq(a, b) == a.day < b.day \/ (a.day = b.day /\ a.ms <= b.ms)

Days(k) == [day |-> k, ms |-> 0]

FreqRank(f) ==
    CASE f = "daily" -> 1 [] f = "weekly" -> 2 [] f = "monthly" -> 3
      [] f = "yearly" -> 4 [] OTHER -> 0

\* C22: computeChangefreq maps the age d of lastmod in days to 'daily' for
\* d <= 7, 'weekly' for 7 < d <= 30, 'monthly' for 30 < d <= 180 and 'yearly'
\* for d > 180, and is monotone in d: an older file never gets a more
\* frequent value.
C22_ChangefreqByAge ==
    /\ \A c \in ChangefreqCalls :
          LET d == AgeOf(c)
          IN  /\ (c.result = "daily") <=> AgeLeq(d, Days(7))
              /\ (c.result = "weekly") <=> (~AgeLeq(d, Days(7)) /\ AgeLeq(d, Days(30)))
              /\ (c.result = "monthly") <=> (~AgeLeq(d, Days(30)) /\ AgeLeq(d, Days(180)))
              /\ (c.result = "yearly") <=> ~AgeLeq(d, Days(180))
    /\ \A b \in ChangefreqCallsBefore, c \in ChangefreqCalls :
          AgeLeq(AgeOf(b), AgeOf(c)) => FreqRank(b.result) <= FreqRank(c.result)

\* two calls one millisecond apart in age, on the two sides of a threshold
C22_Witness ==
    \E b \in ChangefreqCallsBefore, c \in ChangefreqCalls :
        /\ AgeOf(b) = Days(7) /\ b.result = "daily"
        /\ AgeOf(c) = [day |-> 7, ms |-> 1] /\ c.result = "weekly"


\* the call of computeReport has settled: resolved with a result, or rejected
ReportSettled == report.pc = "done"

\* the places of an abort the claim names: before the start, between two
\* records, while a backoff delay is pending
ClaimedAbortPoints == {"call", "between", "backoff"}

\* the arguments pass the input guards
ArgumentsValid ==
    /\ report.records # {}
    /\ \A o \in report.options :
          o.transform /\ ~(o.strict /\ The(report.records) = 0)

\* the error code of the result, "" for a success or no result
ReportError == IF report.result = {} THEN "" ELSE The(report.result).error

\* C23: computeReport always resolves to a result object with an ok flag and
\* never rejects; when the signal is aborted before the start, between
\* records or while a retry backoff delay is pending, the call resolves to a
\* failure with the error code Aborted and transform is not invoked again
\* after the abort.  (Between records the afterEach hook is running; if it
\* throws, its HookError is the failure reported.)
C23_AbortResolvesAborted ==
    /\ ~report.rejected
    /\ ReportSettled => (report.result # {} /\ The(report.result).ok \in BOOLEAN)
    /\ (ArgumentsValid /\ report.abortedAt \in ClaimedAbortPoints) =>
          /\ report.lateCalls = 0
          /\ ReportSettled =>
                /\ report.result # {} /\ ~The(report.result).ok
                /\ \/ ReportError = "Aborted"
                   \/ report.abortedAt = "between" /\ ReportError = "HookError"

\* the number of times transform was invoked for record i
Invocations(i) == report.calls[i]

IsIncreasing(s) == \A j, k \in 1..Len(s) : j < k => s[j] < s[k]

\* C24: for each record transform is invoked at most max(0, retry.attempts)
\* + 1 times (at most once with the default retry of 0); a record whose
\* transform succeeds contributes exactly one output, the outputs keep the
\* input order, and on success meta.count is the number of outputs.
C24_RetryBound ==
    /\ \A i \in DOMAIN report.calls :
          /\ Invocations(i) <= AttemptMax(report) + 1
          /\ The(report.options).attempts \in {{}, {0}} => Invocations(i) <= 1
    /\ IsIncreasing(report.outputs)
    /\ {report.outputs[k] : k \in 1..Len(report.outputs)} = report.resolved
    /\ \A res \in report.result :
          res.ok => (res.data = report.outputs /\ res.count = Len(res.data))

\* a successful call in which a record was retried to the bound and a later
\* record succeeded at once
C24_Witness ==
    /\ ReportSettled
    /\ \E res \in report.result : res.ok /\ res.count = 2
    /\ \E i \in DOMAIN report.calls :
          Invocations(i) = AttemptMax(report) + 1 /\ Invocations(i) > 1


\* verifyMiddleware called next() for the connection
AppPassed(c) ==
    /\ c.kind = "http"
    /\ c.ns = "AppNamespace"
    /\ Len(c.events) >= 2
    /\ c.events[2] = "next"

\* a browser-like request for an application route that accepts text/html
\* and carries no verification cookie
BrowserWithoutCookie(c) ==
    /\ isBrowser(c.req)
    /\ acceptsHtml(c.req)
    /\ LacksVerifiedOk(c.req)

\* C25: a browser-like client that requests an AppNamespace route with
\* text/html in Accept and no verification cookie, and follows
\* verifyMiddleware's challenge page (reloading the same path with the same
\* headers and the cookies the response set), eventually passes
\* verifyMiddleware instead of being challenged on every reload.
C25_ChallengeConverges ==
    (AppChallenged(conn) /\ BrowserWithoutCookie(conn)) ~> AppPassed(conn)


\* the promise withConcurrencyLimit returned has resolved
PoolResolved == pool.then = "resolved"

\* the items of the call, and those for which fn resolved to a truthy value
ItemIndices == 0..(pool.n - 1)

TruthyResults == {idx \in DOMAIN pool.outcome : pool.outcome[idx] = "truthy"}

\* C26: with a flushCallback, under every interleaving of the workers every
\* truthy result returned by fn is passed to flushCallback exactly once: none
\* is dropped when the results buffer is cleared after an awaited flush, and
\* none is delivered by two flushes.
C26_FlushedExactlyOnce ==
    /\ \A idx \in DOMAIN pool.delivered : pool.delivered[idx] <= 1
    /\ PoolResolved => \A idx \in TruthyResults : pool.delivered[idx] = 1

\* the calls of fn in flight
InFlight == {w \in DOMAIN pool.workers : pool.workers[w].pc = "fn"}

SeqToSet(s) == {s[k] : k \in 1..Len(s)}

\* C27: withConcurrencyLimit(items, limit, fn) of build.js invokes fn exactly
\* once per index, has at most min(limit, items.length) invocations in
\* flight, goes on with the other items when one invocation rejects, and
\* resolves to an array holding exactly the truthy results of the resolved
\* invocations.
C27_OncePerIndex ==
    /\ \A idx \in DOMAIN pool.invoked :
          pool.invoked[idx] <= (IF idx \in ItemIndices THEN 1 ELSE 0)
    /\ Cardinality(InFlight) <= Min(pool.limit, pool.n)
    /\ PoolResolved =>
          /\ \A idx \in ItemIndices :
                pool.invoked[idx] = 1 /\ pool.outcome[idx] # "none"
          /\ \A res \in pool.returned :
                /\ SeqToSet(res) = TruthyResults
                /\ Len(res) = Cardinality(TruthyResults)

\* a call over three items with two workers in which one invocation
\* rejected, one gave a falsy and one a truthy result
C27_Witness ==
    /\ pool.variant = "plain"
    /\ PoolResolved
    /\ pool.n = 3 /\ pool.limit = 2
    /\ \E a, b, c \in ItemIndices :
          /\ pool.outcome[a] = "rejects" /\ a < b
          /\ pool.outcome[b] = "truthy"
          /\ pool.outcome[c] = "falsy"


\* C28: for every token string and every sequence of presentations at
\* non-decreasing clock times, validateBotToken returns true at most once
\* over the whole run, also after the fingerprint has been evicted: eviction
\* comes 900000 ms after acceptance, when the age of the token is beyond
\* 300000 ms.
C28_AcceptedAtMostOnce == \A t \in TokenStrings : accepted[t] <= 1

\* a token accepted once is presented again after its fingerprint has been
\* evicted, and is refused
C28_Witness ==
    /\ lastCall.token # {}
    /\ \A t \in lastCall.token :
          /\ t \in TokenStrings
          /\ accepted[t] = 1
          /\ Sha256Hex(t) \notin DOMAIN usedTokens
    /\ lastCall.now = clock
    /\ ~lastCall.known
    /\ ~lastCall.ok


\* the place of the first event named in the log of the process, 0 if none
FirstEvent(name) ==
    IF \E k \in 1..Len(proc.events) : proc.events[k] = name
    THEN CHOOSE k \in 1..Len(proc.events) :
            /\ proc.events[k] = name
            /\ \A j \in 1..(k - 1) : proc.events[j] # name
    ELSE 0

Happened(name) == FirstEvent(name) > 0

\* C29: after SIGINT or SIGTERM, also when the signal is repeated while the
\* shutdown is in progress, bare.close is started only after the HTTP
\* server's close callback has fired, process.exit(0) is called only after
\* the bare server's close callback, and the process never exits before both
\* servers have closed.
C29_ShutdownOrder ==
    /\ Happened("bare.close") =>
          /\ Happened("HTTP server closed")
          /\ FirstEvent("HTTP server closed") < FirstEvent("bare.close")
          /\ proc.http = "closed"
    /\ proc.bare # "open" => Happened("bare.close")
    /\ Happened("process.exit") =>
          /\ Happened("Bare server closed")
          /\ FirstEvent("Bare server closed") < FirstEvent("process.exit")
    /\ proc.exited <=> Happened("process.exit")
    /\ proc.exited => (proc.http = "closed" /\ proc.bare = "closed")

\* the process exited after a signal that was repeated while a connection
\* kept the HTTP server from closing
C29_Witness ==
    /\ proc.exited
    /\ Len(proc.signals) >= 2
    /\ \E k \in 1..Len(proc.events) :
          /\ proc.events[k] = "bare.close"
          /\ k > FirstEvent("bare.close")
          /\ k < FirstEvent("process.exit")


\* the rows of the owner: those whose email is ADMIN_EMAIL
OwnerRows == {id \in DOMAIN db.users : {db.users[id].email} = EnvGet("ADMIN_EMAIL")}

\* C30: over any sequence of adminUserActionHandler requests, the is_admin of
\* a user changes only by a request whose authenticated caller is the owner
\* (the caller's email equals ADMIN_EMAIL), and no request changes or deletes
\* the owner's own row or the caller's own row.
C30_RolesOnlyByOwner ==
    [][\A id \in DOMAIN db.users :
          /\ (id \in DOMAIN db'.users /\ db'.users[id].is_admin # db.users[id].is_admin)
                => db'.last.caller \subseteq OwnerRows /\ db'.last.caller # {}
          /\ (id \in OwnerRows \/ {id} = db'.last.caller)
                => (id \in DOMAIN db'.users /\ db'.users[id] = db.users[id])]_vars

\* the owner has made the first user staff, and an admin who is not the owner
\* has then been refused
C30_Witness ==
    /\ "u3" \in DOMAIN db.users
    /\ db.users["u3"].is_admin = 2
    /\ db.last = [caller |-> {"u2"}, status |-> 403]
    /\ "u2" \in DOMAIN db.users
    /\ db.users["u2"].is_admin = 3

====
